---- MODULE Spec2Model ----
(***************************************************************************)
(* Verification model of the paredros debugger core: the Decision Oracle   *)
(* (follow_transitions over the grammar's ATN), the Traversal Builder       *)
(* (ParseTraversal), the Merge Engine (group_and_merge /                    *)
(* replace_merged_nodes / _fix_node_ids), the Tree Builder (ParseTraceTree) *)
(* and the Explorer (ParseTreeExplorer).                                    *)
(*                                                                          *)
(* The source tree mixes two generations of attribute names for one and the *)
(* same step fields; the model reads them as aliases:                       *)
(*   possible_alternatives = possible_transitions                           *)
(*   chosen_index          = chosen_transition_index                        *)
(*   has_error             = is_error_node                                  *)
(*   current_token         = current_token_repr                             *)
(***************************************************************************)
EXTENDS Integers, Sequences, FiniteSets, TLC

(***************************************************************************)
(* Part A.  The grammar's ATN (Samples/Simpleton) and the Decision Oracle.  *)
(***************************************************************************)

symbolicNames == <<"EINS", "ZWEI", "DREI">>

ruleNames == <<"startRule", "zwoelf">>

Eps(t) == [kind |-> "EPS", target |-> t, arg |-> <<>>]

Atom(t, tok) == [kind |-> "ATOM", target |-> t, arg |-> <<tok>>]

SetT(t, toks) == [kind |-> "SET", target |-> t, arg |-> toks]

RuleT(start, ruleIndex) == [kind |-> "RULE", target |-> start, arg |-> <<ruleIndex>>]

St(type, rule, trans) == [stateType |-> type, ruleIndex |-> rule, transitions |-> trans]

\* The deserialized ATN of the Simpleton grammar: states 0..23, their
\* transitions in edge order, rule-stop states carrying the epsilon edges to
\* the follow state of every call site.  ruleIndex is 1-based here
\* (1 = startRule, 2 = zwoelf).
atn ==
  [s \in 0..23 |->
     CASE s = 0  -> St("RULE_START", 1, <<Eps(15)>>)
       [] s = 1  -> St("RULE_STOP", 1, <<>>)
       [] s = 2  -> St("RULE_START", 2, <<Eps(17)>>)
       [] s = 3  -> St("RULE_STOP", 2, <<Eps(16)>>)
       [] s = 4  -> St("BASIC", 1, <<Atom(6, 1)>>)
       [] s = 5  -> St("PLUS_BLOCK_START", 1, <<Eps(4)>>)
       [] s = 6  -> St("BLOCK_END", 1, <<Eps(7)>>)
       [] s = 7  -> St("PLUS_LOOP_BACK", 1, <<Eps(5), Eps(8)>>)
       [] s = 8  -> St("LOOP_END", 1, <<Eps(16)>>)
       [] s = 9  -> St("BASIC", 1, <<RuleT(2, 2)>>)
       [] s = 10 -> St("BASIC", 1, <<Atom(11, 3)>>)
       [] s = 11 -> St("BASIC", 1, <<Atom(16, 3)>>)
       [] s = 12 -> St("BASIC", 1, <<Atom(13, 1)>>)
       [] s = 13 -> St("BASIC", 1, <<Atom(14, 2)>>)
       [] s = 14 -> St("BASIC", 1, <<Atom(16, 3)>>)
       [] s = 15 -> St("BLOCK_START", 1, <<Eps(5), Eps(9), Eps(10), Eps(12)>>)
       [] s = 16 -> St("BLOCK_END", 1, <<Eps(1)>>)
       [] s = 17 -> St("BASIC", 2, <<Atom(19, 1)>>)
       [] s = 18 -> St("BASIC", 2, <<SetT(20, <<2, 3>>)>>)
       [] s = 19 -> St("PLUS_BLOCK_START", 2, <<Eps(18)>>)
       [] s = 20 -> St("BLOCK_END", 2, <<Eps(21)>>)
       [] s = 21 -> St("PLUS_LOOP_BACK", 2, <<Eps(19), Eps(22)>>)
       [] s = 22 -> St("LOOP_END", 2, <<Eps(3)>>)
       [] OTHER  -> St("BASIC", 2, <<>>)]

\* A Python str used where a list of labels is expected is iterated (and
\* turned into a tuple) character by character.
Chars(name) ==
  CASE name = "EINS" -> <<"E", "I", "N", "S">>
    [] name = "ZWEI" -> <<"Z", "W", "E", "I">>
    [] name = "DREI" -> <<"D", "R", "E", "I">>

RuleLabel(ruleIndex) ==
  CASE ruleIndex = 1 -> "Rule startRule"
    [] ruleIndex = 2 -> "Rule zwoelf"

RECURSIVE follow_transitions(_, _)
RECURSIVE FollowEdges(_, _, _, _)

\* The body of the "for transition in state.transitions" loop, from edge i on.
FollowEdges(s, i, visited, results) ==
  IF i > Len(atn[s].transitions) THEN results
  ELSE LET tr == atn[s].transitions[i]
       IN  CASE tr.kind = "ATOM" ->
                  FollowEdges(s, i + 1, visited,
                              Append(results, <<s, Chars(symbolicNames[tr.arg[1]])>>))
             [] tr.kind = "SET" ->
                  FollowEdges(s, i + 1, visited,
                              Append(results, <<s, [j \in 1..Len(tr.arg) |-> symbolicNames[tr.arg[j]]]>>))
             [] tr.kind = "RULE" ->
                  FollowEdges(s, i + 1, visited,
                              Append(results, <<s, <<RuleLabel(tr.arg[1])>> >>))
             [] OTHER ->
                  FollowEdges(s, i + 1, visited,
                              results \o follow_transitions(tr.target, visited))

\* ParseTraversal.follow_transitions: the (state, labels) pairs reachable from
\* state s through epsilon transitions only.
follow_transitions(s, visited) ==
  IF s \in visited THEN <<>>
  ELSE IF atn[s].stateType = "RULE_STOP" THEN << <<s, <<"Exit">> >> >>
  ELSE FollowEdges(s, 1, visited \cup {s}, <<>>)

(***************************************************************************)
(* Part B.  The Traversal Builder (ParseTraversal, CustomErrorHandler,      *)
(* LookaheadVisualizer): one ParseStep per interpreter event.               *)
(***************************************************************************)

\* Token types are 1..3 (EINS, ZWEI, DREI); _token_str renders "NAME ('text')".
TokenText(tt) ==
  CASE tt = 1 -> "1"
    [] tt = 2 -> "2"
    [] tt = 3 -> "3"

token_str(tt) ==
  CASE tt = 1 -> "EINS ('1')"
    [] tt = 2 -> "ZWEI ('2')"
    [] tt = 3 -> "DREI ('3')"

\* First position of a sequence of flags that is set, 0 when there is none
\* (the "for ... : if ...: ...; break" idiom).
FirstTrue(flags) ==
  IF \E i \in 1..Len(flags) : flags[i]
  THEN CHOOSE i \in 1..Len(flags) : flags[i] /\ \A j \in 1..(i - 1) : ~flags[j]
  ELSE 0

HasLabel(tr, lab) == \E n \in 1..Len(tr[2]) : tr[2][n] = lab

\* t.startswith("Rule " + name): no label of this grammar has another rule's
\* label as a proper prefix, so the prefix test is label equality.
StartsWithRule(tr, ruleIndex) == HasLabel(tr, RuleLabel(ruleIndex))

\* ParseStep.matches_token / get_matching_alternative for a typed token:
\* the transition has a label equal to the token type or to the token text.
TokenMatches(tr, tt) == HasLabel(tr, symbolicNames[tt]) \/ HasLabel(tr, TokenText(tt))

matches_token(step, tt) ==
  \E i \in 1..Len(step.possible_transitions) : TokenMatches(step.possible_transitions[i], tt)

get_matching_alternative(step, tt) ==
  LET P(tr) == TokenMatches(tr, tt)
      i == FirstTrue([ix \in 1..Len(step.possible_transitions) |->
                        P(step.possible_transitions[ix])])
  IN  IF i = 0 THEN -1 ELSE i

\* ParseStep.__init__ for an alternative branch plus add_alternative_node:
\* the branch gets the compound id "<parent id>.<ordinal>", kept here as the
\* sequence parent_id \o <<ordinal>>, and previous_node names its parent
\* (by object identity).
AltStep(parent, parent_id, ordinal, target_state, node_type) ==
  [id |-> parent_id \o <<ordinal>>,
   previous_node |-> parent,
   state |-> target_state,
   rule_name |-> ruleNames[atn[target_state].ruleIndex],
   node_type |-> node_type,
   possible_transitions |-> <<>>,
   nbranches |-> 0]

EmptyTraversal == [all_steps |-> <<>>, error_occurred |-> FALSE, eh_current |-> 0]

\* ParseTraversal.add_decision_point: append a new step after current_node
\* (always the last step), with one alternative branch per transition.  obj
\* is the identity of the ParseStep object (the ordinal of its creation on
\* the main path), next_node the identity of its successor (0 for None).
add_decision_point(trav, state, token, possible_transitions, rule, node_type) ==
  LET n == Len(trav.all_steps)
      new_id == IF n = 0 THEN 0 ELSE trav.all_steps[n].id + 1
      new_node ==
        [obj |-> n + 1,
         next_node |-> 0,
         previous_node |-> n,
         id |-> new_id,
         node_type |-> node_type,
         rule_name |-> rule,
         state |-> state,
         token |-> token,
         possible_transitions |-> possible_transitions,
         chosen_index |-> -1,
         is_error_node |-> FALSE,
         alternative_branches |->
           [j \in 1..Len(possible_transitions) |->
              AltStep(n + 1, <<new_id>>, j, possible_transitions[j][1], node_type)]]
      linked == IF n = 0 THEN trav.all_steps
                ELSE [trav.all_steps EXCEPT ![n].next_node = n + 1]
  IN  [trav EXCEPT !.all_steps = Append(linked, new_node)]

\* Set the chosen index of step number i (1-based position) of the traversal.
SetChosen(trav, i, c) == [trav EXCEPT !.all_steps[i].chosen_index = c]

SetLastChosen(trav, c) == SetChosen(trav, Len(trav.all_steps), c)

\* The rule names of the grammars recorded: those of Simpleton and, for the
\* resolution of a step by a rule entry, one more rule of a grammar whose
\* rule names are not prefix-free.
OtherRuleNames == {"zwoelfer"}

AllRuleNames == {ruleNames[i] : i \in 1..Len(ruleNames)} \cup OtherRuleNames

\* Python's q.startswith(p) on these rule names.
NameStartsWith(q, p) == q = p \/ (q = "zwoelfer" /\ p = "zwoelf")

\* any(t.startswith(f'Rule {rule_name}') for t in tokens): the labels that
\* start with "Rule " are "Rule " followed by a rule name.
EntersRuleByPrefix(tr, rule_name) ==
  \E n \in 1..Len(tr[2]) : \E q \in AllRuleNames :
    tr[2][n] = "Rule " \o q /\ NameStartsWith(q, rule_name)

\* ParseTraversal._create_rule_entry_node
create_rule_entry_node(trav, rule_name, state) ==
  LET n == Len(trav.all_steps)
      P(tr) == EntersRuleByPrefix(tr, rule_name)
      hit == IF n > 0 /\ trav.all_steps[n].chosen_index = -1
             THEN FirstTrue([ix \in 1..Len(trav.all_steps[n].possible_transitions) |->
                               P(trav.all_steps[n].possible_transitions[ix])])
             ELSE 0
      t1 == IF hit > 0 THEN SetChosen(trav, n, hit) ELSE trav
      alternatives == follow_transitions(state, {})
      t2 == add_decision_point(t1, state, rule_name, alternatives,
                               rule_name, "Rule entry")
      E(tr) == HasLabel(tr, "Exit")
      ex == FirstTrue([ix \in 1..Len(alternatives) |-> E(alternatives[ix])])
  IN  SetLastChosen(t2, IF Len(alternatives) = 1 THEN 1
                        ELSE IF ex > 0 THEN ex ELSE -1)

\* ParseTraversal._create_rule_exit_node
create_rule_exit_node(trav, rule_name, state) ==
  LET n == Len(trav.all_steps)
      E(tr) == HasLabel(tr, "Exit")
      hit == IF n > 0 /\ trav.all_steps[n].chosen_index = -1
             THEN FirstTrue([ix \in 1..Len(trav.all_steps[n].possible_transitions) |->
                               E(trav.all_steps[n].possible_transitions[ix])])
             ELSE 0
      t1 == IF hit > 0 THEN SetChosen(trav, n, hit) ELSE trav
      t2 == add_decision_point(t1, state, "Rule exit", << <<0, <<"Exit">> >> >>,
                               rule_name, "Rule exit")
  IN  SetLastChosen(t2, 1)

\* Mutant of create_token_node: the previous step is resolved to its first
\* transition whether or not the token matches one.
create_token_node_resolves_first(trav, tt, ruleIndex, state) ==
  LET n == Len(trav.all_steps)
      t1 == IF n > 0 /\ Len(trav.all_steps[n].possible_transitions) > 0
            THEN SetChosen(trav, n, 1)
            ELSE trav
      t2 == add_decision_point(t1, state, token_str(tt), follow_transitions(state, {}),
                               ruleNames[ruleIndex], "Token consume")
  IN  SetLastChosen(t2, 1)

\* ParseTraversal._create_token_node
create_token_node(trav, tt, ruleIndex, state) ==
  LET n == Len(trav.all_steps)
      t1 == IF n > 0 /\ Len(trav.all_steps[n].possible_transitions) > 0
                 /\ matches_token(trav.all_steps[n], tt)
            THEN SetChosen(trav, n, get_matching_alternative(trav.all_steps[n], tt))
            ELSE trav
      t2 == add_decision_point(t1, state, token_str(tt), follow_transitions(state, {}),
                               ruleNames[ruleIndex], "Token consume")
  IN  SetLastChosen(t2, 1)

\* LookaheadVisualizer.adaptivePredict: the prediction is stored in the
\* attribute "chosen", which no other code reads; chosen_index stays -1.
adaptivePredict(trav, ruleIndex, state) ==
  add_decision_point(trav, state, "lookahead", follow_transitions(state, {}),
                     ruleNames[ruleIndex], "Decision")

\* CustomDefaultErrorStrategy.sync: a Sync step, then the error handler's own
\* current_node (the previous Sync step) is resolved when one of its
\* transitions enters the current rule.
sync(trav, ruleIndex, state) ==
  LET t1 == add_decision_point(trav, state, "lookahead", follow_transitions(state, {}),
                               ruleNames[ruleIndex], "Sync")
      c == trav.eh_current
      P(tr) == StartsWithRule(tr, ruleIndex)
      hit == IF c > 0
             THEN FirstTrue([ix \in 1..Len(t1.all_steps[c].possible_transitions) |->
                               P(t1.all_steps[c].possible_transitions[ix])])
             ELSE 0
      t2 == IF hit > 0 THEN SetChosen(t1, c, hit) ELSE t1
  IN  [t2 EXCEPT !.eh_current = Len(t1.all_steps)]

\* Mutant of reportError: the Error step is recorded but not marked.
reportErrorUnmarked(trav, ruleIndex, state) ==
  LET t1 == add_decision_point(trav, state, "lookahead", follow_transitions(state, {}),
                               ruleNames[ruleIndex], "Error")
  IN  [t1 EXCEPT !.error_occurred = TRUE]

\* CustomDefaultErrorStrategy.reportError: only the first error is recorded.
reportError(trav, ruleIndex, state) ==
  LET t1 == add_decision_point(trav, state, "lookahead", follow_transitions(state, {}),
                               ruleNames[ruleIndex], "Error")
  IN  [t1 EXCEPT !.error_occurred = TRUE,
                 !.all_steps[Len(t1.all_steps)].is_error_node = TRUE]

\* Mutant of Record: exitRule records the rule exit whether or not an error
\* has been reported.
RecordExitAfterError(trav, ev) ==
  IF trav.error_occurred /\ ev.type # "rule_exit" THEN trav
  ELSE CASE ev.type = "rule_entry" -> create_rule_entry_node(trav, ruleNames[ev.rule], ev.state)
         [] ev.type = "rule_exit" -> create_rule_exit_node(trav, ruleNames[ev.rule], ev.state)
         [] ev.type = "token_consume" -> create_token_node(trav, ev.token, ev.rule, ev.state)
         [] ev.type = "decision" -> adaptivePredict(trav, ev.rule, ev.state)
         [] ev.type = "sync" -> sync(trav, ev.rule, ev.state)
         [] ev.type = "error" -> reportError(trav, ev.rule, ev.state)

\* One interpreter event handed to the builder.  Every handler returns at
\* once when an error has already been recorded.
Record(trav, ev) ==
  IF trav.error_occurred THEN trav
  ELSE CASE ev.type = "rule_entry" -> create_rule_entry_node(trav, ruleNames[ev.rule], ev.state)
         [] ev.type = "rule_exit" -> create_rule_exit_node(trav, ruleNames[ev.rule], ev.state)
         [] ev.type = "token_consume" -> create_token_node(trav, ev.token, ev.rule, ev.state)
         [] ev.type = "decision" -> adaptivePredict(trav, ev.rule, ev.state)
         [] ev.type = "sync" -> sync(trav, ev.rule, ev.state)
         [] ev.type = "error" -> reportError(trav, ev.rule, ev.state)

RECURSIVE RecordAll(_, _)
RecordAll(trav, events) ==
  IF events = <<>> THEN trav
  ELSE RecordAll(Record(trav, Head(events)), Tail(events))

(***************************************************************************)
(* Part C.  The Merge Engine.                                               *)
(***************************************************************************)

\* Python's ordering of the label strings of this grammar (code points).
StrRank(str) ==
  CASE str = "D" -> 1 [] str = "DREI" -> 2 [] str = "E" -> 3 [] str = "EINS" -> 4
    [] str = "Exit" -> 5 [] str = "I" -> 6 [] str = "N" -> 7 [] str = "R" -> 8
    [] str = "Rule startRule" -> 9 [] str = "Rule zwoelf" -> 10 [] str = "S" -> 11
    [] str = "W" -> 12 [] str = "Z" -> 13 [] str = "ZWEI" -> 14

RECURSIVE TupleLess(_, _)
\* Python's lexicographic "<" on tuples of strings.
TupleLess(a, b) ==
  IF b = <<>> THEN FALSE
  ELSE IF a = <<>> THEN TRUE
  ELSE IF StrRank(Head(a)) # StrRank(Head(b)) THEN StrRank(Head(a)) < StrRank(Head(b))
  ELSE TupleLess(Tail(a), Tail(b))

\* "<" on (target_state, tuple(labels)) pairs.
PairLess(p, q) == p[1] < q[1] \/ (p[1] = q[1] /\ TupleLess(p[2], q[2]))

RECURSIVE SortedSeq(_)
\* sorted(list(S)) for a set S of (state, labels) pairs.
SortedSeq(S) ==
  IF S = {} THEN <<>>
  ELSE LET m == CHOOSE x \in S : \A y \in S \ {x} : PairLess(x, y)
       IN  <<m>> \o SortedSeq(S \ {m})

RECURSIVE GroupScan(_, _, _, _, _)
\* The grouping loop of group_and_merge over steps[i..]: cleanup_groups so
\* far, the pending current_group (positions) and current_rule ("" = None).
GroupScan(steps, i, cleanup_groups, current_group, current_rule) ==
  IF i > Len(steps)
  THEN IF Len(current_group) > 1 THEN Append(cleanup_groups, current_group)
       ELSE cleanup_groups
  ELSE LET node == steps[i]
       IN  IF node.node_type \in {"Rule entry", "Rule exit", "Token consume"}
           THEN GroupScan(steps, i + 1,
                          IF Len(current_group) > 1
                          THEN Append(cleanup_groups, current_group) ELSE cleanup_groups,
                          <<>>, "")
           ELSE IF node.node_type \in {"Decision", "Sync"}
           THEN IF current_rule = ""
                THEN GroupScan(steps, i + 1, cleanup_groups, <<i>>, node.rule_name)
                ELSE IF node.rule_name = current_rule
                THEN GroupScan(steps, i + 1, cleanup_groups, Append(current_group, i),
                               current_rule)
                ELSE GroupScan(steps, i + 1,
                               IF Len(current_group) > 1
                               THEN Append(cleanup_groups, current_group)
                               ELSE cleanup_groups,
                               <<i>>, node.rule_name)
           ELSE GroupScan(steps, i + 1, cleanup_groups, current_group, current_rule)

Range(seq) == {seq[i] : i \in 1..Len(seq)}

\* Mutant of new_chosen: the comparison with the merged transitions never
\* succeeds, the merged step stays unresolved.
new_chosen_never_found(last_node, all_alternatives) == -1

\* The new_chosen of group_and_merge: the position in the merged, sorted
\* transitions of the transition the last member of the group chose, -1
\* when it chose none or the transition is not found.
new_chosen(last_node, all_alternatives) ==
  LET last_chosen == last_node.chosen_index
      P(tr) == tr = last_node.possible_transitions[last_chosen]
      found == IF last_chosen > 0
               THEN FirstTrue([ix \in 1..Len(all_alternatives) |-> P(all_alternatives[ix])])
               ELSE 0
  IN  IF found > 0 THEN found ELSE -1

\* Mutant of MergedNode: the merged step offers the transitions of the last
\* member of the group only.
MergedNodeOfLast(steps, group) ==
  LET first == steps[group[1]]
      last == steps[group[Len(group)]]
  IN  [obj |-> Len(steps) + group[1],
       next_node |-> 0,
       previous_node |-> 0,
       id |-> first.id,
       node_type |-> IF first.node_type = "Decision" THEN "Merged Decision"
                     ELSE "Merged Sync",
       rule_name |-> first.rule_name,
       state |-> first.state,
       token |-> last.token,
       possible_transitions |-> SortedSeq(Range(last.possible_transitions)),
       chosen_index |-> -1,
       is_error_node |-> \E g \in 1..Len(group) : steps[group[g]].is_error_node,
       alternative_branches |-> last.alternative_branches]

\* The merged ParseStep group_and_merge creates for one group (a sequence of
\* positions in steps).
MergedNode(steps, group) ==
  LET first == steps[group[1]]
      last == steps[group[Len(group)]]
      all_alternatives ==
        SortedSeq(UNION {Range(steps[group[g]].possible_transitions) : g \in 1..Len(group)})
  IN  [obj |-> Len(steps) + group[1],
       next_node |-> 0,
       previous_node |-> 0,
       id |-> first.id,
       node_type |-> IF first.node_type = "Decision" THEN "Merged Decision"
                     ELSE "Merged Sync",
       rule_name |-> first.rule_name,
       state |-> first.state,
       token |-> last.token,
       possible_transitions |-> all_alternatives,
       chosen_index |-> new_chosen(last, all_alternatives),
       is_error_node |-> \E g \in 1..Len(group) : steps[group[g]].is_error_node,
       alternative_branches |-> last.alternative_branches]

\* Mutant of group_and_merge: the group still pending when the loop over
\* all_steps ends is not handled.
group_and_merge_without_pending(steps) ==
  LET groups == GroupScan(steps, 1, <<>>, <<>>, "")
      n == Len(groups)
      kept == IF n > 0 /\ groups[n][Len(groups[n])] = Len(steps)
              THEN SubSeq(groups, 1, n - 1) ELSE groups
  IN  [g \in 1..Len(kept) |->
         [group |-> kept[g], merged_node |-> MergedNode(steps, kept[g])]]

\* ParseTraversal.group_and_merge: the (group, merged step) pairs.
group_and_merge(steps) ==
  LET groups == GroupScan(steps, 1, <<>>, <<>>, "")
  IN  [g \in 1..Len(groups) |->
         [group |-> groups[g], merged_node |-> MergedNode(steps, groups[g])]]

RECURSIVE Splice(_, _, _, _)
\* The loop of replace_merged_nodes: new_nodes so far, current_pos in steps,
\* merged groups from number g on.
Splice(steps, merged_groups, g, acc) ==
  IF g > Len(merged_groups)
  THEN acc.new_nodes \o SubSeq(steps, acc.current_pos, Len(steps))
  ELSE LET grp == Range(merged_groups[g].group)
           stop == IF \E q \in acc.current_pos..Len(steps) : q \in grp
                   THEN CHOOSE q \in acc.current_pos..Len(steps) :
                          q \in grp /\ \A r \in acc.current_pos..(q - 1) : r \notin grp
                   ELSE Len(steps) + 1
           after == IF \E q \in stop..Len(steps) : q \notin grp
                    THEN CHOOSE q \in stop..Len(steps) :
                           q \notin grp /\ \A r \in stop..(q - 1) : r \in grp
                    ELSE Len(steps) + 1
           group == merged_groups[g].group
           merged_node ==
             [merged_groups[g].merged_node EXCEPT
                !.alternative_branches =
                   [j \in 1..Len(steps[group[Len(group)]].alternative_branches) |->
                      [steps[group[Len(group)]].alternative_branches[j]
                         EXCEPT !.previous_node = merged_groups[g].merged_node.obj]]]
           with_merged == (acc.new_nodes \o SubSeq(steps, acc.current_pos, stop - 1))
                            \o <<merged_node>>
           m == Len(with_merged)
           to_prev == IF m > 1
                      THEN [with_merged EXCEPT ![m - 1].next_node = merged_node.obj,
                                               ![m].previous_node = with_merged[m - 1].obj]
                      ELSE with_merged
           to_next == IF after <= Len(steps)
                      THEN [to_prev EXCEPT ![m].next_node = steps[after].obj]
                      ELSE to_prev
           relinked == IF after <= Len(steps)
                       THEN [steps EXCEPT ![after].previous_node = merged_node.obj]
                       ELSE steps
       IN  Splice(relinked, merged_groups, g + 1,
                  [new_nodes |-> to_next, current_pos |-> after])

\* Mutant of replace_merged_nodes: the groups are taken out and the merged
\* steps put in their place, but no link is updated.
replace_merged_nodes_unlinked(steps, merged_groups) ==
  LET in_group(i) == \E g \in 1..Len(merged_groups) : i \in Range(merged_groups[g].group)
      first_of(i) == \E g \in 1..Len(merged_groups) : merged_groups[g].group[1] = i
      put(i) == IF first_of(i)
                THEN <<(CHOOSE mg \in Range(merged_groups) : mg.group[1] = i).merged_node>>
                ELSE IF in_group(i) THEN <<>> ELSE <<steps[i]>>
      upto[i \in 0..Len(steps)] == IF i = 0 THEN <<>> ELSE upto[i - 1] \o put(i)
  IN  upto[Len(steps)]

\* ParseTraversal.replace_merged_nodes: the new all_steps.
replace_merged_nodes(steps, merged_groups) ==
  LET new_nodes == Splice(steps, merged_groups, 1, [new_nodes |-> <<>>, current_pos |-> 1])
  IN  IF new_nodes = <<>> THEN new_nodes
      ELSE [new_nodes EXCEPT ![1].previous_node = 0]

\* The position in steps of the object with identity key, 0 when key is 0
\* (None) or the object is not in the list.
PosOf(steps, key) ==
  IF \E i \in 1..Len(steps) : steps[i].obj = key
  THEN CHOOSE i \in 1..Len(steps) : steps[i].obj = key
  ELSE 0

RECURSIVE ChainFrom(_, _, _)
\* The positions update_alt visits: from position i along next_node.
ChainFrom(steps, i, seen) ==
  IF i = 0 \/ i \in seen THEN seen
  ELSE ChainFrom(steps, PosOf(steps, steps[i].next_node), seen \cup {i})

\* Mutant of fix_node_ids: the steps are renumbered, the ids of their
\* alternative branches are left as recorded.
fix_node_ids_main_only(steps) ==
  [i \in 1..Len(steps) |-> [steps[i] EXCEPT !.id = i - 1]]

\* ParseTraversal._fix_node_ids: sequential ids from 0 down all_steps, then
\* the alternative branches' ids re-derived from their parent's id for the
\* steps on the next_node chain from the root.
fix_node_ids(steps) ==
  LET on_chain == IF steps = <<>> THEN {} ELSE ChainFrom(steps, 1, {})
  IN  [i \in 1..Len(steps) |->
         [steps[i] EXCEPT
            !.id = i - 1,
            !.alternative_branches =
               IF i \in on_chain
               THEN [j \in 1..Len(steps[i].alternative_branches) |->
                       [steps[i].alternative_branches[j] EXCEPT !.id = <<i - 1, j>>]]
               ELSE @]]

\* ParseInformation.parse, post-processing of the recorded traversal.
PostProcess(steps) == fix_node_ids(replace_merged_nodes(steps, group_and_merge(steps)))

(***************************************************************************)
(* Part D.  The parses: the interpreter events of the generated Simpleton   *)
(* parser on a few inputs, recorded, merged and renumbered.                 *)
(***************************************************************************)

Ev(type, rule, state, token) == [type |-> type, rule |-> rule, state |-> state, token |-> token]

Inputs == {"", "11", "33", "13", "123"}

\* The events the instrumented parser raises, in order.  startRule is
\* entered at state 0; sync and adaptivePredict run at state 15; the chosen
\* outer alternative then matches its tokens.  Only invalid characters (or
\* nothing) leave EOF as the first token: sync passes, prediction fails and
\* the error is reported.
Events(input) ==
  CASE input = "" ->
         <<Ev("rule_entry", 1, 0, 0), Ev("sync", 1, 15, 0), Ev("error", 1, 15, 0),
           Ev("rule_exit", 1, 15, 0)>>
    [] input = "11" ->
         <<Ev("rule_entry", 1, 0, 0), Ev("sync", 1, 15, 0), Ev("decision", 1, 15, 0),
           Ev("sync", 1, 5, 0), Ev("token_consume", 1, 4, 1), Ev("sync", 1, 7, 0),
           Ev("token_consume", 1, 4, 1), Ev("sync", 1, 7, 0), Ev("rule_exit", 1, 7, 0)>>
    [] input = "33" ->
         <<Ev("rule_entry", 1, 0, 0), Ev("sync", 1, 15, 0), Ev("decision", 1, 15, 0),
           Ev("token_consume", 1, 10, 3), Ev("token_consume", 1, 11, 3),
           Ev("rule_exit", 1, 11, 0)>>
    [] input = "13" ->
         <<Ev("rule_entry", 1, 0, 0), Ev("sync", 1, 15, 0), Ev("decision", 1, 15, 0),
           Ev("rule_entry", 2, 9, 0), Ev("token_consume", 2, 17, 1), Ev("sync", 2, 19, 0),
           Ev("token_consume", 2, 18, 3), Ev("sync", 2, 21, 0), Ev("rule_exit", 2, 21, 0),
           Ev("rule_exit", 1, 9, 0)>>
    [] input = "123" ->
         <<Ev("rule_entry", 1, 0, 0), Ev("sync", 1, 15, 0), Ev("decision", 1, 15, 0),
           Ev("rule_entry", 2, 9, 0), Ev("token_consume", 2, 17, 1), Ev("sync", 2, 19, 0),
           Ev("token_consume", 2, 18, 2), Ev("sync", 2, 21, 0),
           Ev("token_consume", 2, 18, 3), Ev("sync", 2, 21, 0), Ev("rule_exit", 2, 21, 0),
           Ev("rule_exit", 1, 9, 0)>>
    [] input = "32" ->
         <<Ev("rule_entry", 1, 0, 0), Ev("sync", 1, 15, 0), Ev("decision", 1, 15, 0),
           Ev("token_consume", 1, 10, 3), Ev("error", 1, 11, 0), Ev("rule_exit", 1, 11, 0)>>

\* ParseInformation.parse: record the events, merge, renumber.
Traversal(input) == PostProcess(RecordAll(EmptyTraversal, Events(input)).all_steps)

(***************************************************************************)
(* Part E.  The Tree Builder (ParseTraceTree).                              *)
(*                                                                          *)
(* A tree is [root, nodes]: root is <<>> (None) or <<n>>, nodes maps the    *)
(* number n of node "ptn_n" to the node.  A trace step is referenced by the *)
(* key of the ParseStep object: <<i>> for step i of the traversal,          *)
(* <<i, j>> for its j-th alternative branch, and so on down the branches.   *)
(***************************************************************************)

EmptyTree == [root |-> <<>>, nodes |-> <<>>]

\* Mutant of ParseTreeNode: a node without a rule name is given the name
\* "unknown".
ParseTreeNodeAlwaysNamed(ruleName, token) ==
  [rule_name |-> IF ruleName = "None" THEN "unknown" ELSE ruleName,
   token |-> token, children |-> <<>>, trace_steps |-> <<>>]

\* ParseTreeNode.__init__
ParseTreeNode(ruleName, token) ==
  [rule_name |-> ruleName, token |-> token, children |-> <<>>, trace_steps |-> <<>>]

AddNode(nodes, n, node) == [m \in (DOMAIN nodes) \cup {n} |-> IF m = n THEN node ELSE nodes[m]]

RECURSIVE BuildScan(_, _, _)
\* The loop of build_from_traversal from step number i on; b carries the
\* tree, the stack of open rule nodes and ParseTreeNode._global_id_counter.
BuildScan(steps, i, b) ==
  IF i > Len(steps) THEN b
  ELSE
    LET pnode == steps[i]
        nt == pnode.node_type
        ref == <<pnode.id>>
        top == b.stack[Len(b.stack)]
        fresh == b.ctr
        WithChild(nodes) ==
          IF b.stack # <<>> THEN [nodes EXCEPT ![top].children = Append(@, fresh)] ELSE nodes
    IN  CASE nt = "Rule entry" ->
               BuildScan(steps, i + 1,
                 [root |-> IF b.stack # <<>> THEN b.root ELSE <<fresh>>,
                  nodes |-> AddNode(WithChild(b.nodes), fresh,
                                    [ParseTreeNode(pnode.rule_name, "None")
                                       EXCEPT !.trace_steps = <<ref>>]),
                  stack |-> Append(b.stack, fresh),
                  ctr |-> b.ctr + 1])
          [] nt = "Token consume" ->
               BuildScan(steps, i + 1,
                 [root |-> IF b.stack # <<>> THEN b.root ELSE <<fresh>>,
                  nodes |-> AddNode(WithChild(b.nodes), fresh,
                                    [ParseTreeNode("None", pnode.token)
                                       EXCEPT !.trace_steps = <<ref>>]),
                  stack |-> b.stack,
                  ctr |-> b.ctr + 1])
          [] nt = "Rule exit" ->
               BuildScan(steps, i + 1,
                 IF b.stack # <<>>
                 THEN [b EXCEPT !.nodes[top].trace_steps = Append(@, ref),
                                !.stack = SubSeq(b.stack, 1, Len(b.stack) - 1)]
                 ELSE b)
          [] OTHER ->
               BuildScan(steps, i + 1,
                 IF b.stack # <<>>
                 THEN [b EXCEPT !.nodes[top].trace_steps = Append(@, ref)]
                 ELSE b)

\* Mutant of build_from_traversal: the first step is not read.
build_from_traversal_skips_first(steps, ctr) ==
  BuildScan(steps, 2, [root |-> <<>>, nodes |-> <<>>, stack |-> <<>>, ctr |-> ctr])

\* ParseTraceTree.build_from_traversal, started with the id counter at ctr.
build_from_traversal(steps, ctr) ==
  BuildScan(steps, 1, [root |-> <<>>, nodes |-> <<>>, stack |-> <<>>, ctr |-> ctr])

\* ParseTreeNode.to_dict: node_type = "token" if self.token else "rule"
\* (None and the empty string are falsy).
to_dict_node_type(node) == IF node.token \notin {"None", ""} THEN "token" ELSE "rule"

\* Mutant of FilterLE: the step with id max_step_id itself is cut away.
FilterLess(refs, max_step_id) ==
  LET keep(ref) == ref[1] < max_step_id IN SelectSeq(refs, keep)

\* SelectSeq with a captured bound.
FilterLE(refs, max_step_id) ==
  LET keep(ref) == ref[1] <= max_step_id IN SelectSeq(refs, keep)

RECURSIVE clone_node(_, _, _)
\* clone_node of copy_and_cut: the nodes of the clone of old_node's subtree
\* (empty when old_node keeps no step), as a set of <<n, node>> pairs.
clone_node(tree, n, max_step_id) ==
  LET old_node == tree.nodes[n]
      filtered_steps == FilterLE(old_node.trace_steps, max_step_id)
      kids == [c \in 1..Len(old_node.children) |->
                 clone_node(tree, old_node.children[c], max_step_id)]
      kept(c) == \E pr \in kids[c] : pr[1] = old_node.children[c]
      keptIdx == LET isKept(c) == kept(c)
                 IN  SelectSeq([c \in 1..Len(old_node.children) |-> c], isKept)
  IN  IF filtered_steps = <<>> THEN {}
      ELSE {<<n, [rule_name |-> old_node.rule_name,
                  token |-> old_node.token,
                  children |-> [c \in 1..Len(keptIdx) |-> old_node.children[keptIdx[c]]],
                  trace_steps |-> filtered_steps]>>}
           \cup UNION {kids[c] : c \in 1..Len(old_node.children)}

\* Mutant of copy_and_cut: the cut always falls before the last step the
\* tree holds.
copy_and_cut_before_last(tree, max_step_id) ==
  IF tree.root = <<>> THEN EmptyTree
  ELSE LET ids == UNION {{tree.nodes[n].trace_steps[t][1] :
                            t \in 1..Len(tree.nodes[n].trace_steps)} : n \in DOMAIN tree.nodes}
           top == CHOOSE m \in ids : \A i \in ids : i <= m
           bound == IF max_step_id < top THEN max_step_id ELSE top - 1
           cl == clone_node(tree, tree.root[1], bound)
       IN  [root |-> IF cl = {} THEN <<>> ELSE tree.root,
            nodes |-> [n \in {pr[1] : pr \in cl} |->
                         (CHOOSE pr \in cl : pr[1] = n)[2]]]

\* ParseTraceTree.copy_and_cut: the clones keep the ids of their originals.
copy_and_cut(tree, max_step_id) ==
  IF tree.root = <<>> THEN EmptyTree
  ELSE LET cl == clone_node(tree, tree.root[1], max_step_id)
       IN  [root |-> IF cl = {} THEN <<>> ELSE tree.root,
            nodes |-> [n \in {pr[1] : pr \in cl} |->
                         (CHOOSE pr \in cl : pr[1] = n)[2]]]

\* Every clone is a ParseTreeNode construction and advances the id counter.
ClonesMade(tree, max_step_id) == Cardinality(DOMAIN copy_and_cut(tree, max_step_id).nodes)

\* Mutant of last_step_id: the number of recorded steps instead of their
\* largest id.
last_step_id_counts(tree, steps) ==
  IF tree.root = <<>> THEN 0 ELSE Len(steps)

\* ParseTraceTree.last_step_id of the original tree.
last_step_id(tree, steps) ==
  IF tree.root = <<>> THEN 0
  ELSE CHOOSE m \in {steps[i].id : i \in 1..Len(steps)} :
         \A i \in 1..Len(steps) : steps[i].id <= m

RECURSIVE BFSFrom(_, _)
\* The nodes of a tree in the order of the breadth-first searches.
BFSFrom(tree, queue) ==
  IF queue = <<>> THEN <<>>
  ELSE <<Head(queue)>> \o BFSFrom(tree, Tail(queue) \o tree.nodes[Head(queue)].children)

BFS(tree) == IF tree.root = <<>> THEN <<>> ELSE BFSFrom(tree, tree.root)

(***************************************************************************)
(* Part F.  The Explorer (ParseTreeExplorer).                                *)
(*                                                                          *)
(* The operations are functions on the record e of the Explorer's fields:   *)
(* all_steps and original_tree (fixed after construction), alt_steps (the   *)
(* mutable alternative-branch ParseSteps of the traversal, by object key),  *)
(* working_tree, current_step_id, max_work_id, mode (the flag               *)
(* _in_alternative_expansion_mode), expanded_alt_nodes,                     *)
(* expanded_alt_ptnodes, ctr (ParseTreeNode._global_id_counter) and out,    *)
(* the outcome of the call: "ok" or the exception raised.                   *)
(*                                                                          *)
(* A step id is kept as a sequence: <<n>> for the int n, <<p, j, ...>> for  *)
(* the str "p.j...".  An int never equals a str.                            *)
(***************************************************************************)

IsAlt(ref) == Len(ref) > 1

\* The element of a one-element set.  The({F(v) : v \in {x}}) is F(x) with
\* x computed once, the way a local variable holds the result of a call.
The(S) == CHOOSE v \in S : TRUE

MainStep(e, ref) == e.all_steps[ref[1] + 1]

StepId(e, ref) == IF IsAlt(ref) THEN e.alt_steps[ref].id ELSE <<MainStep(e, ref).id>>

StepTransitions(e, ref) ==
  IF IsAlt(ref) THEN e.alt_steps[ref].possible_transitions
  ELSE MainStep(e, ref).possible_transitions

\* Alternative branches never get a chosen index: it stays -1.
StepChosen(e, ref) == IF IsAlt(ref) THEN -1 ELSE MainStep(e, ref).chosen_index

\* len(step.alternative_branches)
StepBranches(e, ref) ==
  IF IsAlt(ref) THEN e.alt_steps[ref].nbranches
  ELSE Len(MainStep(e, ref).alternative_branches)

RECURSIVE search_node(_, _, _, _)
\* search_node of get_node_by_id at position i of the main sequence: the
\* step itself, then its alternative branches in order, then the next node.
search_node(e, i, seen, node_id) ==
  IF i = 0 \/ i \in seen THEN <<>>
  ELSE IF <<e.all_steps[i].id>> = node_id THEN <<(<<e.all_steps[i].id>>)>>
  ELSE
    LET own == e.all_steps[i].id
        hit == FirstTrue([j \in 1..Len(e.all_steps[i].alternative_branches) |->
                            e.alt_steps[<<own, j>>].id = node_id])
    IN  IF hit # 0 THEN <<(<<own, hit>>)>>
        ELSE search_node(e, PosOf(e.all_steps, e.all_steps[i].next_node),
                         seen \cup {i}, node_id)

\* ParseTraversal.get_node_by_id: <<>> for None, else <<the step found>>;
\* ids are compared as strings, so the int n is looked up as <<n>>.
get_node_by_id(e, node_id) ==
  IF e.all_steps = <<>> THEN <<>> ELSE search_node(e, 1, {}, node_id)

\* The (node, step) pairs of a tree in the order the searches visit them.
TreeSteps(tree) ==
  LET order == BFS(tree)
      RECURSIVE Flat(_)
      Flat(i) == IF i > Len(order) THEN <<>>
                 ELSE [t \in 1..Len(tree.nodes[order[i]].trace_steps) |->
                         [node |-> order[i], ref |-> tree.nodes[order[i]].trace_steps[t]]]
                      \o Flat(i + 1)
  IN  Flat(1)

\* ParseTreeExplorer._get_working_tree_step / _find_ptnode_in_working: the
\* first (node, step) with st.id == step_id, <<>> for None.
FindStep(e, step_id) ==
  LET hit(x) == StepId(e, x.ref) = <<step_id>>
  IN  The({The({IF i = 0 THEN <<>> ELSE <<all[i]>> :
                  i \in {FirstTrue([ix \in 1..Len(all) |-> hit(all[ix])])}}) :
             all \in {TreeSteps(e.working_tree)}})

current_step(e) == FindStep(e, e.current_step_id)

RECURSIVE Reachable(_, _)
Reachable(nodes, n) ==
  {n} \cup UNION {Reachable(nodes, nodes[n].children[c]) : c \in 1..Len(nodes[n].children)}

\* Drop the nodes that are no longer attached below the root.
Attached(tree) ==
  IF tree.root = <<>> THEN tree
  ELSE [tree EXCEPT !.nodes = [n \in Reachable(tree.nodes, tree.root[1]) |-> tree.nodes[n]]]

RemoveAt(seq, i) == SubSeq(seq, 1, i - 1) \o SubSeq(seq, i + 1, Len(seq))

\* Mutant of remove_node_from_parent: the search never finds the target.
remove_node_from_parent_miss(tree, target) == tree

\* ParseTreeExplorer._remove_node_from_parent: detach node target from the
\* first node (in search order) that has it as a child.
remove_node_from_parent(tree, target) ==
  LET isParent(n) == \E c \in 1..Len(tree.nodes[n].children) : tree.nodes[n].children[c] = target
      isTarget(ch) == ch = target
      from(order, i) ==
        IF i = 0 THEN tree
        ELSE Attached([tree EXCEPT !.nodes[order[i]].children =
                         RemoveAt(@, FirstTrue([ix \in 1..Len(@) |-> isTarget(@[ix])]))])
  IN  The({The({from(order, i) :
                  i \in {FirstTrue([ix \in 1..Len(order) |-> isParent(order[ix])])}}) :
             order \in {BFS(tree)}})

\* Mutant of RemoveAll: only the first target is detached.
RemoveFirstOnly(tree, targets) ==
  IF targets = <<>> THEN tree
  ELSE remove_node_from_parent(tree, Head(targets))

RECURSIVE RemoveAll(_, _)
RemoveAll(tree, targets) ==
  IF targets = <<>> THEN tree
  ELSE The({RemoveAll(t, Tail(targets)) :
              t \in {remove_node_from_parent(tree, Head(targets))}})

\* Mutant of compute_max_work_id: counts the steps of the tree instead of
\* taking their largest id.
compute_max_work_id_count(e, tree) == Len(TreeSteps(tree))

\* ParseTreeExplorer._compute_max_work_id: the largest int step id in the
\* working tree, 0 when there is none.
compute_max_work_id(e, tree) ==
  LET ints == {StepId(e, x.ref)[1] : x \in {y \in Range(TreeSteps(tree)) : Len(StepId(e, y.ref)) = 1}}
  IN  IF ints = {} THEN 0 ELSE CHOOSE m \in ints \cup {0} : \A n \in ints \cup {0} : n <= m

\* Mutant of cut_to_step: the cursor is not moved onto the new max_work_id.
cut_to_step_keeps_cursor(e, step_id) ==
  The({[e EXCEPT !.working_tree = wt,
                 !.ctr = @ + ClonesMade(e.original_tree, step_id),
                 !.max_work_id = compute_max_work_id(e, wt)] :
         wt \in {copy_and_cut(e.original_tree, step_id)}})

\* ParseTreeExplorer._cut_to_step
cut_to_step(e, step_id) ==
  The({The({[e EXCEPT !.working_tree = wt,
                      !.ctr = @ + ClonesMade(e.original_tree, step_id),
                      !.max_work_id = mw,
                      !.current_step_id = mw] :
              mw \in {compute_max_work_id(e, wt)}}) :
         wt \in {copy_and_cut(e.original_tree, step_id)}})

\* Mutant of cancel_alt_expansion: outside expansion mode the call is
\* rejected, as choose_alternative rejects it.
cancel_alt_expansion_strict(e) ==
  IF ~e.mode THEN [e EXCEPT !.out = "RuntimeError: Not in alt expansion mode"]
  ELSE [e EXCEPT !.working_tree = RemoveAll(e.working_tree, e.expanded_alt_ptnodes),
                 !.expanded_alt_nodes = <<>>,
                 !.expanded_alt_ptnodes = <<>>,
                 !.mode = FALSE,
                 !.out = "ok"]

\* ParseTreeExplorer.cancel_alt_expansion
cancel_alt_expansion(e) ==
  IF ~e.mode THEN [e EXCEPT !.out = "ok"]
  ELSE [e EXCEPT !.working_tree = RemoveAll(e.working_tree, e.expanded_alt_ptnodes),
                 !.expanded_alt_nodes = <<>>,
                 !.expanded_alt_ptnodes = <<>>,
                 !.mode = FALSE,
                 !.out = "ok"]

\* ParseTraversal.expand_alternative(node, alternative_index): ret is <<>>
\* (None) or <<key of the expanded branch>>; raised when the indexing of
\* node.possible_transitions or of the target state's transitions fails.
expand_alternative(e, ref, alternative_index) ==
  IF alternative_index < 1 \/ alternative_index > StepBranches(e, ref)
  THEN [e |-> e, ret |-> <<>>, raised |-> FALSE]
  ELSE
    LET key == ref \o <<alternative_index>>
        alt_node == e.alt_steps[key]
        trans == StepTransitions(e, ref)
    IN  IF alternative_index > Len(trans)
           \/ atn[trans[alternative_index][1]].transitions = <<>>
        THEN [e |-> e, ret |-> <<>>, raised |-> TRUE]
        ELSE
          LET target_state == atn[trans[alternative_index][1]]
              possible_transitions ==
                follow_transitions(target_state.transitions[1].target, {})
              nb == alt_node.nbranches
              newKeys == {key \o <<nb + c>> : c \in 1..Len(possible_transitions)}
              child(k) ==
                [id |-> alt_node.id \o <<k[Len(k)]>>,
                 state |-> possible_transitions[k[Len(k)] - nb][1],
                 rule_name |-> ruleNames[atn[possible_transitions[k[Len(k)] - nb][1]].ruleIndex],
                 node_type |-> alt_node.node_type,
                 possible_transitions |-> <<>>,
                 nbranches |-> 0]
          IN  [e |-> [e EXCEPT !.alt_steps =
                        [k \in (DOMAIN e.alt_steps) \cup newKeys |->
                           IF k = key
                           THEN [alt_node EXCEPT
                                   !.possible_transitions = possible_transitions,
                                   !.nbranches = nb + Len(possible_transitions)]
                           ELSE IF k \in newKeys THEN child(k)
                           ELSE e.alt_steps[k]]],
               ret |-> <<key>>,
               raised |-> FALSE]

RECURSIVE ExpandLoop(_, _, _, _)
\* The first loop of expand_alternatives, from alt_index on (1-based).
ExpandLoop(e, ref, alt_index, possible_steps) ==
  IF alt_index > Len(StepTransitions(e, ref))
  THEN [e |-> e, possible_steps |-> possible_steps, raised |-> FALSE]
  ELSE The({IF r.raised THEN [e |-> r.e, possible_steps |-> possible_steps, raised |-> TRUE]
             ELSE ExpandLoop(r.e, ref, alt_index + 1, possible_steps \o r.ret) :
              r \in {expand_alternative(e, ref, alt_index)}})

\* ParseTreeExplorer.expand_alternatives
expand_alternatives(e) ==
  LET attach(r, step, ptnode) ==
        LET n == Len(r.possible_steps)
            chosen == StepChosen(e, step)
            ptn(idx) == r.e.ctr + idx - 1
        IN  IF r.raised THEN [r.e EXCEPT !.out = "IndexError"]
            ELSE
              [r.e EXCEPT
                 !.alt_steps =
                    [k \in DOMAIN @ |->
                       IF \E idx \in 1..n : r.possible_steps[idx] = k /\ idx # chosen
                       THEN [@[k] EXCEPT !.node_type = "alt_node"] ELSE @[k]],
                 !.working_tree.nodes =
                    [m \in (DOMAIN @) \cup {ptn(idx) : idx \in 1..n} |->
                       IF m = ptnode
                       THEN [@[m] EXCEPT !.children = @ \o [idx \in 1..n |-> ptn(idx)]]
                       ELSE IF m \in DOMAIN @ THEN @[m]
                       ELSE [ParseTreeNode(r.e.alt_steps[r.possible_steps[m - r.e.ctr + 1]].rule_name,
                                           "None")
                               EXCEPT !.trace_steps = <<r.possible_steps[m - r.e.ctr + 1]>>]],
                 !.ctr = @ + n,
                 !.expanded_alt_nodes = r.possible_steps,
                 !.expanded_alt_ptnodes = [idx \in 1..n |-> ptn(idx)],
                 !.mode = TRUE,
                 !.out = "ok"]
      at(e1, cur) ==
        IF cur = <<>> THEN [e1 EXCEPT !.out = "AttributeError"]
        ELSE The({attach(r, cur[1].ref, cur[1].node) :
                    r \in {ExpandLoop(e1, cur[1].ref, 1, <<>>)}})
      cleared(e0) ==
        The({at(e1, cur) :
               e1 \in {[e0 EXCEPT !.expanded_alt_nodes = <<>>, !.expanded_alt_ptnodes = <<>>]},
               cur \in {current_step(e0)}})
  IN  The({cleared(e0) : e0 \in {cancel_alt_expansion(e)}})

\* Mutant of choose_alternative: the expansion-mode flag is dropped before
\* the index is validated.
choose_alternative_flag_first(e, alt_index) ==
  IF ~e.mode THEN [e EXCEPT !.out = "RuntimeError: Not in alt expansion mode"]
  ELSE [e EXCEPT !.mode = FALSE, !.out = "RuntimeError: Invalid alt index"]

\* ParseTreeExplorer.choose_alternative
choose_alternative(e, alt_index) ==
  IF ~e.mode THEN [e EXCEPT !.out = "RuntimeError: Not in alt expansion mode"]
  ELSE IF alt_index < 1 \/ alt_index > Len(e.expanded_alt_nodes)
  THEN [e EXCEPT !.out = "RuntimeError: Invalid alt index"]
  ELSE
    LET pick(e1, cur) ==
          IF cur = <<>> THEN [e1 EXCEPT !.out = "AttributeError"]
          ELSE IF alt_index = StepChosen(e1, cur[1].ref)
          THEN [cut_to_step([e1 EXCEPT !.current_step_id = @ + 1], e1.current_step_id + 1)
                  EXCEPT !.out = "ok"]
          ELSE
            LET chosen_step == e1.expanded_alt_nodes[alt_index]
                others == RemoveAt(e1.expanded_alt_ptnodes, alt_index)
            IN  [e1 EXCEPT
                   !.working_tree = RemoveAll(@, others),
                   !.alt_steps[chosen_step] =
                      [@ EXCEPT !.node_type = "alt_chosen", !.id = <<e1.current_step_id + 1>>],
                   !.expanded_alt_nodes = <<>>,
                   !.expanded_alt_ptnodes = <<>>,
                   !.current_step_id = @ + 1,
                   !.out = "ok"]
    IN  The({The({pick(e1, cur) : cur \in {current_step(e1)}}) :
               e1 \in {[e EXCEPT !.mode = FALSE]}})

\* Mutant of the step_forward loop: at the end of the input the call
\* returns normally instead of raising.
StepLoopSilentAtEnd(e, remaining) ==
  IF e.current_step_id + 1 > last_step_id(e.original_tree, e.all_steps)
  THEN [e EXCEPT !.out = "ok"]
  ELSE [cut_to_step(e, e.current_step_id + 1) EXCEPT !.out = "ok"]

RECURSIVE StepLoop(_, _)
\* The "for _ in range(num_steps)" loop of step_forward.
StepLoop(e, remaining) ==
  IF remaining = 0 THEN [e EXCEPT !.out = "ok"]
  ELSE IF e.current_step_id + 1 > last_step_id(e.original_tree, e.all_steps)
  THEN [e EXCEPT !.out = "RuntimeError: Cannot step beyond end of input"]
  ELSE
    LET chosen(c) ==
          IF c.out # "ok" THEN [c EXCEPT !.out = "RuntimeError: No parse step"]
          ELSE StepLoop(c, remaining - 1)
        expanded(x) ==
          IF x.out # "ok" THEN [x EXCEPT !.out = "RuntimeError: No parse step"]
          ELSE IF Len(x.expanded_alt_nodes) # 1 THEN StepLoop(x, remaining - 1)
          ELSE The({chosen(c) : c \in {choose_alternative(x, 1)}})
        at(cur) ==
          IF cur = <<>> THEN [e EXCEPT !.out = "RuntimeError: No parse step"]
          ELSE IF StepChosen(e, cur[1].ref) # -1
          THEN [cut_to_step(e, e.current_step_id + 1) EXCEPT !.out = "ok"]
          ELSE The({expanded(x) : x \in {expand_alternatives(e)}})
    IN  The({at(cur) : cur \in {current_step(e)}})

\* Mutant of step_forward: the cut is taken in place, the full tree
\* becoming the tree that was cut from it.
step_forward_cuts_in_place(e, num_steps) ==
  IF num_steps < 1 THEN [e EXCEPT !.out = "ok"]
  ELSE The({[r EXCEPT !.original_tree = IF r.out = "ok" /\ ~r.mode THEN r.working_tree ELSE @] :
              r \in {The({StepLoop(e0, num_steps) : e0 \in {cancel_alt_expansion(e)}})}})

\* ParseTreeExplorer.step_forward
step_forward(e, num_steps) ==
  IF num_steps < 1 THEN [e EXCEPT !.out = "ok"]
  ELSE The({StepLoop(e0, num_steps) : e0 \in {cancel_alt_expansion(e)}})

\* Mutant of remove_alt_step: the alternative's node is left in the tree.
remove_alt_step_keeps(e, tree, step_id) == tree

\* ParseTreeExplorer._remove_alt_step: detach the first child (in search
\* order) whose first trace step has the id step_id.
remove_alt_step(e, tree, step_id) ==
  LET order == BFS(tree)
      isHit(ch) == tree.nodes[ch].trace_steps # <<>>
                   /\ StepId(e, tree.nodes[ch].trace_steps[1]) = <<step_id>>
      hasHit(n) == \E c \in 1..Len(tree.nodes[n].children) : isHit(tree.nodes[n].children[c])
      i == FirstTrue([ix \in 1..Len(order) |-> hasHit(order[ix])])
  IN  IF i = 0 THEN tree
      ELSE Attached([tree EXCEPT !.nodes[order[i]].children =
                       RemoveAt(@, FirstTrue([ix \in 1..Len(@) |-> isHit(@[ix])]))])

\* Mutant of go_back_one_step: the start check is off by one ("< 0").
go_back_one_step_below_zero(e) ==
  IF e.current_step_id < 0
  THEN [e EXCEPT !.out = "RuntimeError: Already at step 0"]
  ELSE LET back(e0, new_id) ==
             [cut_to_step([e0 EXCEPT !.current_step_id = new_id], new_id) EXCEPT !.out = "ok"]
       IN  The({back(e0, e0.current_step_id - 1) : e0 \in {cancel_alt_expansion(e)}})

\* ParseTreeExplorer.go_back_one_step
go_back_one_step(e) ==
  IF e.current_step_id <= 0
  THEN [e EXCEPT !.out = "RuntimeError: Already at step 0"]
  ELSE
    LET back(e0, new_id) ==
          IF new_id <= e0.max_work_id
          THEN [cut_to_step([e0 EXCEPT !.current_step_id = new_id], new_id) EXCEPT !.out = "ok"]
          ELSE IF e0.current_step_id > e0.max_work_id
          THEN [e0 EXCEPT !.working_tree = remove_alt_step(e0, @, e0.current_step_id),
                          !.current_step_id = new_id,
                          !.out = "ok"]
          ELSE [e0 EXCEPT !.out = "ok"]
    IN  The({back(e0, e0.current_step_id - 1) : e0 \in {cancel_alt_expansion(e)}})

\* Mutant of reset_to_step_id: an id beyond the parse is clamped to the last
\* recorded id instead of being rejected.
reset_to_step_id_clamps(e, step_id) ==
  LET last == last_step_id(e.original_tree, e.all_steps)
      to == IF step_id > last THEN last ELSE step_id
      reset(e0) ==
        IF step_id < 0 THEN [e0 EXCEPT !.out = "RuntimeError: Cannot reset to negative step ID"]
        ELSE [cut_to_step([e0 EXCEPT !.current_step_id = to], to) EXCEPT !.out = "ok"]
  IN  The({reset(e0) : e0 \in {cancel_alt_expansion(e)}})

\* ParseTreeExplorer.reset_to_step_id
reset_to_step_id(e, step_id) ==
  LET reset(e0) ==
        IF step_id < 0 THEN [e0 EXCEPT !.out = "RuntimeError: Cannot reset to negative step ID"]
        ELSE IF step_id > last_step_id(e0.original_tree, e0.all_steps)
        THEN [e0 EXCEPT !.out = "RuntimeError: Step ID is beyond the original parse"]
        ELSE [cut_to_step([e0 EXCEPT !.current_step_id = step_id], step_id) EXCEPT !.out = "ok"]
  IN  The({reset(e0) : e0 \in {cancel_alt_expansion(e)}})

\* Mutant of AtDecision: only three or more transitions make a decision.
AtDecisionOfThree(e) ==
  \E cur \in {current_step(e)} :
    cur # <<>> /\ Len(StepTransitions(e, cur[1].ref)) > 2

\* "cur_step and len(cur_step.possible_alternatives) > 1"
AtDecision(e) ==
  \E cur \in {current_step(e)} :
    cur # <<>> /\ Len(StepTransitions(e, cur[1].ref)) > 1

\* Iterations a loop is followed for before it is declared endless; no loop
\* that ends needs as many (the cursor stays within 0..last_step_id).
LoopFuel == 12

\* Mutant of UntilLoop: the RuntimeError of step_forward is not caught.
UntilLoopRaises(e, fuel) ==
  IF AtDecision(e) THEN [e EXCEPT !.out = "ok"]
  ELSE step_forward(e, 1)

RECURSIVE UntilLoop(_, _)
\* The "while True" loop of step_until_next_decision.  An iteration whose
\* step_forward returns normally and changes nothing is repeated for ever:
\* the call does not return ("no return").
UntilLoop(e, fuel) ==
  IF AtDecision(e) THEN [e EXCEPT !.out = "ok"]
  ELSE LET after(r) ==
             IF r.out # "ok" THEN [r EXCEPT !.out = "ok"]
             ELSE IF fuel = 0 \/ r = [e EXCEPT !.out = "ok"]
             THEN [r EXCEPT !.out = "no return"]
             ELSE UntilLoop(r, fuel - 1)
       IN  The({after(r) : r \in {step_forward(e, 1)}})

\* ParseTreeExplorer.step_until_next_decision
step_until_next_decision(e) ==
  The({UntilLoop(e0, LoopFuel) : e0 \in {cancel_alt_expansion(e)}})

RECURSIVE BackLoop(_, _)
\* The "while self.current_step_id > 0" loop of
\* step_back_until_previous_decision.
BackLoop(e, fuel) ==
  IF ~(e.current_step_id > 0) THEN [e EXCEPT !.out = "ok"]
  ELSE LET after(r) ==
             IF r.out # "ok" THEN r
             ELSE IF AtDecision(r) THEN r
             ELSE IF fuel = 0 \/ r = [e EXCEPT !.out = "ok"]
             THEN [r EXCEPT !.out = "no return"]
             ELSE BackLoop(r, fuel - 1)
       IN  The({after(r) : r \in {go_back_one_step(e)}})

\* ParseTreeExplorer.step_back_until_previous_decision
step_back_until_previous_decision(e) ==
  The({BackLoop(e0, LoopFuel) : e0 \in {cancel_alt_expansion(e)}})

\* Mutant of NewExplorer: the global id counter starts again at 0 once the
\* trees are built.
NewExplorerCounterReset(steps) ==
  LET b == build_from_traversal(steps, 0)
      full_tree == [root |-> b.root, nodes |-> b.nodes]
      start_id == IF steps = <<>> THEN 0
                  ELSE CHOOSE m \in {steps[i].id : i \in 1..Len(steps)} :
                         \A i \in 1..Len(steps) : steps[i].id <= m
      e0 == [all_steps |-> steps,
             original_tree |-> full_tree,
             alt_steps |->
               [k \in UNION {{<<steps[i].id, j>> : j \in 1..Len(steps[i].alternative_branches)} :
                               i \in 1..Len(steps)} |->
                  steps[k[1] + 1].alternative_branches[k[2]]],
             working_tree |-> copy_and_cut(full_tree, start_id),
             current_step_id |-> start_id,
             max_work_id |-> 0,
             mode |-> FALSE,
             expanded_alt_nodes |-> <<>>,
             expanded_alt_ptnodes |-> <<>>,
             ctr |-> 0,
             out |-> "ok"]
  IN  [e0 EXCEPT !.max_work_id = compute_max_work_id(e0, e0.working_tree)]

\* ParseTreeExplorer.__init__ on the traversal of one parse, the original
\* tree having been built first (ParseInformation.parse).
NewExplorer(steps) ==
  LET b == build_from_traversal(steps, 0)
      full_tree == [root |-> b.root, nodes |-> b.nodes]
      start_id == IF steps = <<>> THEN 0
                  ELSE CHOOSE m \in {steps[i].id : i \in 1..Len(steps)} :
                         \A i \in 1..Len(steps) : steps[i].id <= m
      e0 == [all_steps |-> steps,
             original_tree |-> full_tree,
             alt_steps |->
               [k \in UNION {{<<steps[i].id, j>> : j \in 1..Len(steps[i].alternative_branches)} :
                               i \in 1..Len(steps)} |->
                  steps[k[1] + 1].alternative_branches[k[2]]],
             working_tree |-> copy_and_cut(full_tree, start_id),
             current_step_id |-> start_id,
             max_work_id |-> 0,
             mode |-> FALSE,
             expanded_alt_nodes |-> <<>>,
             expanded_alt_ptnodes |-> <<>>,
             ctr |-> b.ctr + ClonesMade(full_tree, start_id),
             out |-> "ok"]
  IN  [e0 EXCEPT !.max_work_id = compute_max_work_id(e0, e0.working_tree)]

(***************************************************************************)
(* Part G.  The state machine: an Explorer constructed on the parse of one  *)
(* of the inputs, driven by the calls of its public interface.              *)
(***************************************************************************)

\* Budget of ParseTreeNode constructions after the Explorer's construction:
\* a call is taken only while the global id counter stays within it.
MaxFreshNodes == 5

\* Cap on len(alternative_branches) of an alternative branch, which grows
\* with every expansion of the branch: a call is taken only while every
\* branch stays within it.
MaxBranches == 4

\* Largest alternative index a caller passes to choose_alternative.
MaxChoice == 5

VARIABLES all_steps, original_tree, alt_steps, working_tree, current_step_id,
          max_work_id, in_alternative_expansion_mode, expanded_alt_nodes,
          expanded_alt_ptnodes, global_id_counter, outcome, last_op,
          traversal, pending, reports, parse_phase,
          token_streams, stream_steps, oracle_graph, oracle_answer

\* The Explorer's fields, the outcome of the last call and its name.
explorer_vars ==
  <<all_steps, original_tree, alt_steps, working_tree, current_step_id,
    max_work_id, in_alternative_expansion_mode, expanded_alt_nodes,
    expanded_alt_ptnodes, global_id_counter, outcome>>

\* The parse run: the traversal with the error handler's flags, the events
\* the interpreter has still to raise, the number of reportError calls made
\* and the phase of ParseInformation.parse ("parsing", "parsed").
parse_vars == <<traversal, pending, reports, parse_phase>>

\* The token streams as objects (token_streams[1] is the parser's own) and
\* the steps that hold them, keyed by their place under a main-path step.
stream_vars == <<token_streams, stream_steps>>

\* A state graph handed to the Decision Oracle and the answer to the last
\* query made on it (<<>> before the first).
oracle_vars == <<oracle_graph, oracle_answer>>

vars == <<explorer_vars, last_op, parse_vars, stream_vars, oracle_vars>>

\* The Explorer's fields as one record.
Explorer ==
  [all_steps |-> all_steps,
   original_tree |-> original_tree,
   alt_steps |-> alt_steps,
   working_tree |-> working_tree,
   current_step_id |-> current_step_id,
   max_work_id |-> max_work_id,
   mode |-> in_alternative_expansion_mode,
   expanded_alt_nodes |-> expanded_alt_nodes,
   expanded_alt_ptnodes |-> expanded_alt_ptnodes,
   ctr |-> global_id_counter,
   out |-> outcome]

\* The call named op took the Explorer to e.
Becomes(after, op) ==
  \E e \in {after} :
  /\ outcome # "no return"
  /\ e.ctr <= 2 * Cardinality(DOMAIN e.original_tree.nodes) + MaxFreshNodes
  /\ \A k \in DOMAIN e.alt_steps : e.alt_steps[k].nbranches <= MaxBranches
  /\ all_steps' = e.all_steps
  /\ original_tree' = e.original_tree
  /\ alt_steps' = e.alt_steps
  /\ working_tree' = e.working_tree
  /\ current_step_id' = e.current_step_id
  /\ max_work_id' = e.max_work_id
  /\ in_alternative_expansion_mode' = e.mode
  /\ expanded_alt_nodes' = e.expanded_alt_nodes
  /\ expanded_alt_ptnodes' = e.expanded_alt_ptnodes
  /\ global_id_counter' = e.ctr
  /\ outcome' = e.out
  /\ last_op' = op
  /\ UNCHANGED <<parse_vars, stream_vars, oracle_vars>>

\* The parse run of an input, finished: every event recorded, the steps
\* merged and renumbered.
Parsed(input) ==
  [RecordAll(EmptyTraversal, Events(input)) EXCEPT !.all_steps = PostProcess(@)]

\* The reportError calls of a parse.
ErrorsIn(events) == Cardinality({i \in 1..Len(events) : events[i].type = "error"})

Init ==
  \E input \in Inputs :
    /\ traversal = Parsed(input)
    /\ pending = <<>>
    /\ reports = ErrorsIn(Events(input))
    /\ parse_phase = "parsed"
    /\ token_streams = <<>>
    /\ stream_steps = <<>>
    /\ oracle_graph = <<>>
    /\ oracle_answer = <<>>
    /\ \E e \in {NewExplorer(Traversal(input))} :
        /\ all_steps = e.all_steps
        /\ original_tree = e.original_tree
        /\ alt_steps = e.alt_steps
        /\ working_tree = e.working_tree
        /\ current_step_id = e.current_step_id
        /\ max_work_id = e.max_work_id
        /\ in_alternative_expansion_mode = e.mode
        /\ expanded_alt_nodes = e.expanded_alt_nodes
        /\ expanded_alt_ptnodes = e.expanded_alt_ptnodes
        /\ global_id_counter = e.ctr
        /\ outcome = e.out
        /\ last_op = "init"

StepForward == Becomes(step_forward(Explorer, 1), "step_forward")

GoBackOneStep == Becomes(go_back_one_step(Explorer), "go_back_one_step")

ResetToStepId ==
  \E step_id \in -1..(last_step_id(original_tree, all_steps) + 1) :
    Becomes(reset_to_step_id(Explorer, step_id), "reset_to_step_id")

ExpandAlternatives == Becomes(expand_alternatives(Explorer), "expand_alternatives")

ChooseAlternative ==
  \E alt_index \in 0..MaxChoice :
    Becomes(choose_alternative(Explorer, alt_index), "choose_alternative")

CancelAltExpansion == Becomes(cancel_alt_expansion(Explorer), "cancel_alt_expansion")

StepUntilNextDecision ==
  Becomes(step_until_next_decision(Explorer), "step_until_next_decision")

StepBackUntilPreviousDecision ==
  Becomes(step_back_until_previous_decision(Explorer), "step_back_until_previous_decision")

Next ==
  \/ StepForward
  \/ GoBackOneStep
  \/ ResetToStepId
  \/ ExpandAlternatives
  \/ ChooseAlternative
  \/ CancelAltExpansion
  \/ StepUntilNextDecision
  \/ StepBackUntilPreviousDecision

Spec == Init /\ [][Next]_vars

(***************************************************************************)
(* Part G2.  The parse run as a state machine: the instrumented parser      *)
(* raises its events one at a time, each handled by the hook that records   *)
(* it; ParseInformation.parse then merges and renumbers.  No Explorer       *)
(* exists yet.                                                               *)
(***************************************************************************)

\* The inputs parsed: those explored, and one that fails after a token has
\* been consumed.
ParsedInputs == Inputs \cup {"32"}

\* Largest number of reportError calls in one parse: ANTLR recovers from an
\* error and goes on parsing, and may report again.
MaxReports == 2

BuilderInit ==
  \E input \in ParsedInputs :
    /\ traversal = EmptyTraversal
    /\ pending = Events(input)
    /\ reports = 0
    /\ parse_phase = "parsing"
    /\ token_streams = <<>>
    /\ stream_steps = <<>>
    /\ oracle_graph = <<>>
    /\ oracle_answer = <<>>
    /\ all_steps = <<>>
    /\ original_tree = EmptyTree
    /\ alt_steps = <<>>
    /\ working_tree = EmptyTree
    /\ current_step_id = 0
    /\ max_work_id = 0
    /\ in_alternative_expansion_mode = FALSE
    /\ expanded_alt_nodes = <<>>
    /\ expanded_alt_ptnodes = <<>>
    /\ global_id_counter = 0
    /\ outcome = "ok"
    /\ last_op = "init"

\* The next event the interpreter raises is of the given type.
Raises(type) ==
  /\ parse_phase = "parsing"
  /\ pending # <<>>
  /\ Head(pending).type = type

\* The hook named op handles the event raised.
Handled(op) ==
  /\ traversal' = Record(traversal, Head(pending))
  /\ pending' = Tail(pending)
  /\ last_op' = op
  /\ UNCHANGED <<explorer_vars, parse_phase, stream_vars, oracle_vars>>

\* CustomParser.enterRule
EnterRule ==
  /\ Raises("rule_entry")
  /\ Handled("enterRule")
  /\ UNCHANGED reports

\* CustomParser.exitRule
ExitRule ==
  /\ Raises("rule_exit")
  /\ Handled("exitRule")
  /\ UNCHANGED reports

\* CustomParser.consume
Consume ==
  /\ Raises("token_consume")
  /\ Handled("consume")
  /\ UNCHANGED reports

\* LookaheadVisualizer.adaptivePredict
AdaptivePredict ==
  /\ Raises("decision")
  /\ Handled("adaptivePredict")
  /\ UNCHANGED reports

\* CustomDefaultErrorStrategy.sync
Sync ==
  /\ Raises("sync")
  /\ Handled("sync")
  /\ UNCHANGED reports

\* CustomDefaultErrorStrategy.reportError: the error of the parse itself,
\* or an error reported where the parser stands, before its next event.
ReportError ==
  \/ /\ Raises("error")
     /\ reports < MaxReports
     /\ Handled("reportError")
     /\ reports' = reports + 1
  \/ /\ parse_phase = "parsing"
     /\ reports < MaxReports
     /\ traversal.all_steps # <<>>
     /\ pending # <<>>
     /\ traversal' = Record(traversal, Ev("error", Head(pending).rule, Head(pending).state, 0))
     /\ reports' = reports + 1
     /\ last_op' = "reportError"
     /\ UNCHANGED <<explorer_vars, pending, parse_phase, stream_vars, oracle_vars>>

\* ParseInformation.parse, once the start rule has returned: group_and_merge,
\* replace_merged_nodes, _fix_node_ids.
PostProcessing ==
  /\ parse_phase = "parsing"
  /\ pending = <<>>
  /\ traversal' = [traversal EXCEPT !.all_steps = PostProcess(@)]
  /\ parse_phase' = "parsed"
  /\ last_op' = "parse"
  /\ UNCHANGED <<explorer_vars, pending, reports, stream_vars, oracle_vars>>

BuilderNext ==
  \/ EnterRule
  \/ ExitRule
  \/ Consume
  \/ AdaptivePredict
  \/ Sync
  \/ ReportError
  \/ PostProcessing

BuilderSpec == BuilderInit /\ [][BuilderNext]_vars

(***************************************************************************)
(* Part G3.  The resolution of a pending choice by the rule hooks, on the   *)
(* steps of a grammar that has a rule zwoelfer beside zwoelf: a step with   *)
(* one to MaxResolverTransitions transitions, pending or settled, followed  *)
(* by rule entries and rule exits.                                          *)
(***************************************************************************)

\* Most transitions of the step the recording starts with.
MaxResolverTransitions == 3

\* Most steps recorded.
MaxRecorded == 3

\* The labels a transition of the first step carries.
ResolverLabels == {"Rule zwoelf", "Rule zwoelfer", "Exit", "ZWEI"}

\* A Sync step at state 15 with the given labels, one per transition, and
\* the given chosen index, as the only step recorded.
FirstStep(labels, chosen) ==
  SetLastChosen(
    add_decision_point(EmptyTraversal, 15, "lookahead",
                       [j \in 1..Len(labels) |-> <<8 + j, <<labels[j]>> >>],
                       "startRule", "Sync"),
    chosen)

ResolverInit ==
  \E len \in 1..MaxResolverTransitions :
    \E labels \in [1..len -> ResolverLabels] :
      \E chosen \in {-1} \cup (1..len) :
        /\ traversal = FirstStep(labels, chosen)
        /\ pending = <<>>
        /\ reports = 0
        /\ parse_phase = "parsing"
        /\ token_streams = <<>>
        /\ stream_steps = <<>>
        /\ oracle_graph = <<>>
        /\ oracle_answer = <<>>
        /\ all_steps = <<>>
        /\ original_tree = EmptyTree
        /\ alt_steps = <<>>
        /\ working_tree = EmptyTree
        /\ current_step_id = 0
        /\ max_work_id = 0
        /\ in_alternative_expansion_mode = FALSE
        /\ expanded_alt_nodes = <<>>
        /\ expanded_alt_ptnodes = <<>>
        /\ global_id_counter = 0
        /\ outcome = "ok"
        /\ last_op = "init"

\* CustomParser.enterRule for a rule of the grammar; the rule starts as
\* zwoelf does (state 2).
EnterNamedRule ==
  \E rule_name \in {"zwoelf", "zwoelfer"} :
    /\ Len(traversal.all_steps) < MaxRecorded
    /\ ~traversal.error_occurred
    /\ traversal' = create_rule_entry_node(traversal, rule_name, 2)
    /\ last_op' = "enterRule"
    /\ UNCHANGED <<explorer_vars, pending, reports, parse_phase, stream_vars, oracle_vars>>

\* CustomParser.exitRule for a rule of the grammar, at the end of zwoelf's
\* loop (state 21).
ExitNamedRule ==
  \E rule_name \in {"zwoelf", "zwoelfer"} :
    /\ Len(traversal.all_steps) < MaxRecorded
    /\ ~traversal.error_occurred
    /\ traversal' = create_rule_exit_node(traversal, rule_name, 21)
    /\ last_op' = "exitRule"
    /\ UNCHANGED <<explorer_vars, pending, reports, parse_phase, stream_vars, oracle_vars>>

\* The states the parser stands at when the consume hook runs: before the
\* token of zwoelf (state 17), and state 23, which the serialized ATN lists
\* without any transition, so that the oracle returns nothing for it.
ConsumeStates == {17, 23}

\* CustomParser.consume of a token at one of these states.
ConsumeAtState ==
  \E state \in ConsumeStates :
    \E tt \in 1..Len(symbolicNames) :
      /\ Len(traversal.all_steps) < MaxRecorded
      /\ ~traversal.error_occurred
      /\ traversal' = create_token_node(traversal, tt, 2, state)
      /\ last_op' = "consume"
      /\ UNCHANGED <<explorer_vars, pending, reports, parse_phase, stream_vars, oracle_vars>>

ResolverNext ==
  \/ EnterNamedRule
  \/ ExitNamedRule
  \/ ConsumeAtState

ResolverSpec == ResolverInit /\ [][ResolverNext]_vars

(***************************************************************************)
(* Part G4.  The token streams as objects.  Every hook hands the step it   *)
(* records a copy of the parser's stream; the candidates of a step hold the *)
(* step's own stream object; expand_alternative hands every child of the    *)
(* expanded candidate a copy and consumes on it.  A stream is its token     *)
(* list (token types, the EOF token last) and its position (the number of   *)
(* tokens before it); streams are named by their place in token_streams.    *)
(***************************************************************************)

\* The type of the EOF token in the token lists of this part.
EOF == 0

\* The token types of the inputs whose streams are held.
StreamInputs == {<<1, 1, 1>>, <<1, 2, 3>>, <<3, 3>>}

\* Most stream objects alive.
MaxStreams == 6

\* The states the second recorded step stands at: the loop ends of startRule
\* and of zwoelf.
LoopEndStates == {7, 21}

\* Mutant of copy_token_stream: the stream handed in is handed back.
copy_token_stream_same_object(streams, original_stream) ==
  [streams |-> streams, copy |-> original_stream]

\* utils.copy_token_stream: a new stream object with the same tokens and
\* the same position.
copy_token_stream(streams, original_stream) ==
  [streams |-> Append(streams, [tokens |-> streams[original_stream].tokens,
                                index |-> streams[original_stream].index]),
   copy |-> Len(streams) + 1]

\* CommonTokenStream.consume on a copy: one token on; on the EOF token the
\* stream stays where it is.
consume(stream) ==
  IF stream.tokens[stream.index + 1] = EOF THEN stream
  ELSE [stream EXCEPT !.index = @ + 1]

\* recognizer.symbolicNames[type]: Python reads the index -1 of the EOF token
\* as the last entry.
SymbolicNameOf(type) ==
  IF type = EOF THEN symbolicNames[Len(symbolicNames)] ELSE symbolicNames[type]

\* ParseTraversal._get_lookahead_tokens with depth 3: the tokens from the
\* position on, up to the EOF token.
LookaheadTokens(stream) ==
  LET left == Len(stream.tokens) - 1 - stream.index
  IN  [i \in 1..(IF left < 3 THEN left ELSE 3) |-> token_str(stream.tokens[stream.index + i])]

\* ParseStep.__init__: the fields that show the input position of a step.
StreamStep(token_stream, current_token, lookahead, state, possible_transitions, nbranches) ==
  [token_stream |-> token_stream,
   current_token |-> current_token,
   lookahead |-> lookahead,
   state |-> state,
   possible_transitions |-> possible_transitions,
   nbranches |-> nbranches]

\* A hook of the error handler at main-path step n while the parser stands
\* at the given state and position: the step holds a copy of the parser's
\* stream, and add_decision_point hands the same object to every candidate.
HeldAt(h, n, state, position) ==
  LET live == [h.streams EXCEPT ![1].index = position]
      c == copy_token_stream(live, 1)
      tr == follow_transitions(state, {})
      look == LookaheadTokens(live[1])
      keys == {<<n>>} \cup {<<n, j>> : j \in 1..Len(tr)}
  IN  [streams |-> c.streams,
       steps |-> [k \in (DOMAIN h.steps) \cup keys |->
                    IF k = <<n>> THEN StreamStep(c.copy, "lookahead", look, state, tr, Len(tr))
                    ELSE IF k \in keys
                    THEN StreamStep(c.copy, "lookahead", look, tr[k[2]][1], <<>>, 0)
                    ELSE h.steps[k]]]

\* token in self.parser.symbolicNames: true of the str an atom transition
\* carries, false of every list of labels.
IsSymbolicName(label) ==
  \E tt \in 1..Len(symbolicNames) : label = Chars(symbolicNames[tt])

\* ParseTraversal._update_token_info_after_consume on the step with key k.
update_token_info_after_consume(h, k) ==
  LET id == h.steps[k].token_stream
      after == consume(h.streams[id])
      more == after.index < Len(after.tokens)
  IN  [streams |-> [h.streams EXCEPT ![id] = after],
       steps |-> [h.steps EXCEPT
                    ![k].current_token =
                       IF more THEN SymbolicNameOf(after.tokens[after.index + 1]) ELSE @,
                    ![k].lookahead = IF more THEN LookaheadTokens(after) ELSE @]]

RECURSIVE AddChildren(_, _, _, _)
\* The loop of expand_alternative over the new transitions, from number c on:
\* one child per transition, each with a copy of the candidate's stream.
AddChildren(h, key, possible_transitions, c) ==
  IF c > Len(possible_transitions) THEN h
  ELSE LET alt_node == h.steps[key]
           cp == copy_token_stream(h.streams, alt_node.token_stream)
           ck == key \o <<alt_node.nbranches + 1>>
           child_node == StreamStep(cp.copy, alt_node.current_token, alt_node.lookahead,
                                    possible_transitions[c][1], <<>>, 0)
           h1 == [streams |-> cp.streams,
                  steps |-> [k \in (DOMAIN h.steps) \cup {ck} |->
                               IF k = ck THEN child_node ELSE h.steps[k]]]
           h2 == IF IsSymbolicName(possible_transitions[c][2])
                 THEN update_token_info_after_consume(h1, ck)
                 ELSE h1
       IN  AddChildren([h2 EXCEPT !.steps[key].nbranches = @ + 1],
                       key, possible_transitions, c + 1)

\* ParseTraversal.expand_alternative on the streams: nothing is written when
\* the index is refused or the indexing of the transitions fails.
expand_alternative_on_streams(h, node, alternative_index) ==
  IF alternative_index < 1 \/ alternative_index > h.steps[node].nbranches THEN h
  ELSE LET key == node \o <<alternative_index>>
           trans == h.steps[node].possible_transitions
       IN  IF alternative_index > Len(trans)
              \/ atn[trans[alternative_index][1]].transitions = <<>>
           THEN h
           ELSE LET possible_transitions ==
                      follow_transitions(atn[trans[alternative_index][1]].transitions[1].target, {})
                IN  AddChildren([h EXCEPT !.steps[key].possible_transitions = possible_transitions],
                                key, possible_transitions, 1)

RECURSIVE ExpandEach(_, _, _)
\* The first loop of ParseTreeExplorer.expand_alternatives on the streams.
ExpandEach(h, node, alt_index) ==
  IF alt_index > Len(h.steps[node].possible_transitions) THEN h
  ELSE ExpandEach(expand_alternative_on_streams(h, node, alt_index), node, alt_index + 1)

\* The streams and the steps that hold them, as one record.
Streams == [streams |-> token_streams, steps |-> stream_steps]

StreamInit ==
  \E input \in StreamInputs :
    \E state \in LoopEndStates :
      \E position \in 1..Len(input) :
        \E now \in position..Len(input) :
          \E h \in {HeldAt(HeldAt([streams |-> << [tokens |-> input \o <<EOF>>, index |-> 0] >>,
                                   steps |-> <<>>],
                                  1, 15, 0),
                           2, state, position)} :
            /\ token_streams = [h.streams EXCEPT ![1].index = now]
            /\ stream_steps = h.steps
            /\ oracle_graph = <<>>
            /\ oracle_answer = <<>>
            /\ traversal = EmptyTraversal
            /\ pending = <<>>
            /\ reports = 0
            /\ parse_phase = "parsed"
            /\ all_steps = <<>>
            /\ original_tree = EmptyTree
            /\ alt_steps = <<>>
            /\ working_tree = EmptyTree
            /\ current_step_id = 0
            /\ max_work_id = 0
            /\ in_alternative_expansion_mode = FALSE
            /\ expanded_alt_nodes = <<>>
            /\ expanded_alt_ptnodes = <<>>
            /\ global_id_counter = 0
            /\ outcome = "ok"
            /\ last_op = "init"

\* The expansion took the streams and their steps to h.
StreamsBecome(h, op) ==
  /\ Len(h.streams) <= MaxStreams
  /\ token_streams' = h.streams
  /\ stream_steps' = h.steps
  /\ last_op' = op
  /\ UNCHANGED <<explorer_vars, parse_vars, oracle_vars>>

\* ParseTraversal.expand_alternative(node, alternative_index)
ExpandAlternative ==
  \E node \in DOMAIN stream_steps :
    \E alternative_index \in 0..MaxChoice :
      \E h \in {expand_alternative_on_streams(Streams, node, alternative_index)} :
        /\ StreamsBecome(h, "expand_alternative")
        /\ h # Streams

\* ParseTreeExplorer.expand_alternatives with node as the current step.
ExpandAllAlternatives ==
  \E node \in DOMAIN stream_steps :
    \E h \in {ExpandEach(Streams, node, 1)} :
      /\ StreamsBecome(h, "expand_alternatives")
      /\ h # Streams

StreamNext ==
  \/ ExpandAlternative
  \/ ExpandAllAlternatives

StreamSpec == StreamInit /\ [][StreamNext]_vars

(***************************************************************************)
(* Part G5.  The Decision Oracle on the state graphs of other grammars:     *)
(* three states, the last one a rule-stop state, with self-loops, cycles    *)
(* and every class of transition a parser ATN holds.                        *)
(***************************************************************************)

\* A transition of a class other than AtomTransition, SetTransition,
\* RuleTransition and EpsilonTransition that matches a token
\* (WildcardTransition, the "." of a parser rule).
Wild(t) == [kind |-> "WILDCARD", target |-> t, arg |-> <<>>]

\* Most transitions of the first state of a graph.
MaxOut == 2

\* Most nested calls of follow_transitions looked at.
MaxCallDepth == 4

GraphStates == 1..3

\* The transitions a state of these graphs can have.
GraphTransitions ==
  UNION {{Eps(t), Wild(t), Atom(t, 1), SetT(t, <<2, 3>>), RuleT(t, 2)} : t \in GraphStates}

\* The lists of at most n of these transitions.
TransitionLists(n) == UNION {[1..len -> GraphTransitions] : len \in 0..n}

RECURSIVE follow_transitions_in(_, _, _, _)
RECURSIVE FollowEdgesIn(_, _, _, _, _, _)

\* The transition loop of follow_transitions on the graph g, from edge i on.
\* found is the list of results so far and whether a call was cut short.
FollowEdgesIn(g, s, i, visited, depth, found) ==
  IF i > Len(g[s].transitions) THEN found
  ELSE LET tr == g[s].transitions[i]
       IN  CASE tr.kind = "ATOM" ->
                  FollowEdgesIn(g, s, i + 1, visited, depth,
                                [found EXCEPT !.results =
                                   Append(@, <<s, Chars(symbolicNames[tr.arg[1]])>>)])
             [] tr.kind = "SET" ->
                  FollowEdgesIn(g, s, i + 1, visited, depth,
                                [found EXCEPT !.results =
                                   Append(@, <<s, [j \in 1..Len(tr.arg) |-> symbolicNames[tr.arg[j]]]>>)])
             [] tr.kind = "RULE" ->
                  FollowEdgesIn(g, s, i + 1, visited, depth,
                                [found EXCEPT !.results =
                                   Append(@, <<s, <<RuleLabel(tr.arg[1])>> >>)])
             [] OTHER ->
                  The({FollowEdgesIn(g, s, i + 1, visited, depth,
                                     [results |-> found.results \o next_results.results,
                                      cut |-> found.cut \/ next_results.cut]) :
                         next_results \in {follow_transitions_in(g, tr.target, visited, depth + 1)}})

\* ParseTraversal.follow_transitions on the graph g, as call number depth of
\* a chain of nested calls; a call nested deeper than MaxCallDepth is cut.
follow_transitions_in(g, s, visited, depth) ==
  IF depth > MaxCallDepth THEN [results |-> <<>>, cut |-> TRUE]
  ELSE IF s \in visited THEN [results |-> <<>>, cut |-> FALSE]
  ELSE IF g[s].stateType = "RULE_STOP"
  THEN [results |-> << <<s, <<"Exit">> >> >>, cut |-> FALSE]
  ELSE FollowEdgesIn(g, s, 1, visited \cup {s}, depth, [results |-> <<>>, cut |-> FALSE])

GraphInit ==
  \E first \in TransitionLists(MaxOut) :
    \E second \in TransitionLists(1) :
      /\ oracle_graph = [s \in GraphStates |->
                           CASE s = 1 -> St("BASIC", 2, first)
                             [] s = 2 -> St("BASIC", 2, second)
                             [] OTHER -> St("RULE_STOP", 2, <<>>)]
      /\ oracle_answer = <<>>
      /\ token_streams = <<>>
      /\ stream_steps = <<>>
      /\ traversal = EmptyTraversal
      /\ pending = <<>>
      /\ reports = 0
      /\ parse_phase = "parsing"
      /\ all_steps = <<>>
      /\ original_tree = EmptyTree
      /\ alt_steps = <<>>
      /\ working_tree = EmptyTree
      /\ current_step_id = 0
      /\ max_work_id = 0
      /\ in_alternative_expansion_mode = FALSE
      /\ expanded_alt_nodes = <<>>
      /\ expanded_alt_ptnodes = <<>>
      /\ global_id_counter = 0
      /\ outcome = "ok"
      /\ last_op = "init"

\* follow_transitions(state) called on a state of the graph.
FollowTransitions ==
  \E state \in GraphStates :
    /\ oracle_answer' = [state |-> state,
                         found |-> follow_transitions_in(oracle_graph, state, {}, 1)]
    /\ last_op' = "follow_transitions"
    /\ UNCHANGED <<explorer_vars, parse_vars, stream_vars, oracle_graph>>

GraphNext == FollowTransitions

GraphSpec == GraphInit /\ [][GraphNext]_vars

(***************************************************************************)
(* Part G6.  Recording at a state the parser's ATN does not hold: the       *)
(* parser's own state when a hook runs, and the target of a transition      *)
(* handed to add_decision_point.  atn.states[n] raises IndexError for such  *)
(* a state.                                                                 *)
(***************************************************************************)

\* A state number beyond the last state of the ATN.
UnknownState == 24

\* ParseTraversal.add_decision_point on transitions whose targets the ATN may
\* not hold: the new step is appended and linked first, then the loop over
\* the transitions looks every target up and raises at the first one
\* missing, after the branches of the transitions before it were added.
add_decision_point_at(trav, state, token, possible_transitions, rule, node_type) ==
  LET missing == FirstTrue([j \in 1..Len(possible_transitions) |->
                              possible_transitions[j][1] \notin DOMAIN atn])
  IN  IF missing = 0
      THEN [trav |-> add_decision_point(trav, state, token, possible_transitions,
                                        rule, node_type),
            raised |-> FALSE]
      ELSE [trav |-> [add_decision_point(trav, state, token,
                                         SubSeq(possible_transitions, 1, missing - 1),
                                         rule, node_type)
                        EXCEPT !.all_steps[Len(trav.all_steps) + 1].possible_transitions =
                                 possible_transitions],
            raised |-> TRUE]

\* The call named op ended in the outcome given and left the traversal t.
Recorded(t, out, op) ==
  /\ Len(traversal.all_steps) < MaxRecorded
  /\ ~traversal.error_occurred
  /\ traversal' = t
  /\ outcome' = out
  /\ last_op' = op
  /\ UNCHANGED <<all_steps, original_tree, alt_steps, working_tree, current_step_id,
                 max_work_id, in_alternative_expansion_mode, expanded_alt_nodes,
                 expanded_alt_ptnodes, global_id_counter,
                 pending, reports, parse_phase, stream_vars, oracle_vars>>

\* CustomDefaultErrorStrategy.sync while the parser stands at a state of
\* zwoelf or at a state the ATN does not hold: the state is looked up before
\* anything is recorded.
SyncAtState ==
  \E state \in {19, UnknownState} :
    IF state \in DOMAIN atn
    THEN Recorded(sync(traversal, 2, state), "ok", "sync")
    ELSE Recorded(traversal, "IndexError", "sync")

\* ParseTraversal.add_decision_point called with two transitions, the
\* second of which leads to a state of the ATN or to one it does not hold.
AddDecisionPoint ==
  \E target_state \in {10, UnknownState} :
    \E r \in {add_decision_point_at(traversal, 15, "lookahead",
                                    << <<9, <<"Rule zwoelf">> >>, <<target_state, <<"DREI">> >> >>,
                                    "startRule", "Sync")} :
      Recorded(r.trav, IF r.raised THEN "IndexError" ELSE "ok", "add_decision_point")

FailureNext ==
  \/ SyncAtState
  \/ AddDecisionPoint

FailureSpec == ResolverInit /\ [][FailureNext]_vars

(***************************************************************************)
(* Part H.  Properties of the Explorer.                                     *)
(***************************************************************************)

\* A tree up to structural equality: node ids, rule and token tags and the
\* children in order.
Shape(tree) ==
  [root |-> tree.root,
   nodes |-> [n \in DOMAIN tree.nodes |->
                [rule_name |-> tree.nodes[n].rule_name,
                 token |-> tree.nodes[n].token,
                 children |-> tree.nodes[n].children]]]

LastId == last_step_id(original_tree, all_steps)

\* The cursor is on a step of the recorded traversal (not on a committed
\* alternative branch).
OnRecordedStep ==
  current_step(Explorer) # <<>> /\ ~IsAlt(current_step(Explorer)[1].ref)

Settled == StepChosen(Explorer, current_step(Explorer)[1].ref) >= 1

RoundTrip == go_back_one_step(step_forward(Explorer, 1))

\* C1 (as stated): from every non-expansion state with the cursor on a
\* recorded step N < last id, step_forward then go_back_one_step leaves the
\* cursor at N and the working tree structurally equal, whether the choice at
\* N is settled or not.
C1_RoundTripAnyStep ==
  (~in_alternative_expansion_mode /\ OnRecordedStep /\ current_step_id < LastId)
    => /\ RoundTrip.current_step_id = current_step_id
       /\ Shape(RoundTrip.working_tree) = Shape(working_tree)

\* C1 (amended): the round trip holds when the forward step moves the cursor,
\* that is when the choice at N is settled or the expansion of an unsettled N
\* yields exactly one candidate (which is chosen automatically).
C1_RoundTripWhenAdvanced ==
  (/\ ~in_alternative_expansion_mode /\ OnRecordedStep /\ current_step_id < LastId
   /\ \/ Settled
      \/ /\ expand_alternatives(Explorer).out = "ok"
         /\ Len(expand_alternatives(Explorer).expanded_alt_nodes) = 1)
    => /\ step_forward(Explorer, 1).out = "ok"
       /\ step_forward(Explorer, 1).current_step_id = current_step_id + 1
       /\ RoundTrip.out = "ok"
       /\ RoundTrip.current_step_id = current_step_id
       /\ Shape(RoundTrip.working_tree) = Shape(working_tree)

\* C1 witness: reached by go_back_one_step, a settled step below the last id
\* from where stepping forward changes the tree and the round trip returns.
C1_Witness ==
  /\ ~in_alternative_expansion_mode /\ OnRecordedStep /\ current_step_id < LastId
  /\ Settled
  /\ Shape(step_forward(Explorer, 1).working_tree) # Shape(working_tree)
  /\ RoundTrip.current_step_id = current_step_id
  /\ last_op = "go_back_one_step"

ExpandThenChoose ==
  choose_alternative(expand_alternatives(Explorer),
                     StepChosen(Explorer, current_step(Explorer)[1].ref))

\* Both calls failed, or both succeeded.
SameOutcome(a, b) == (a.out = "ok") <=> (b.out = "ok")

\* C2 (as stated): at every recorded step N with a settled choice c >= 1,
\* from a non-expansion state, expand_alternatives then choose_alternative(c)
\* ends like a plain step_forward: same cursor, same expansion-mode flag,
\* structurally identical working tree, same outcome, N = last id included.
C2_ChooseChosenIsStepForward ==
  (~in_alternative_expansion_mode /\ OnRecordedStep /\ Settled)
    => /\ ExpandThenChoose.current_step_id = step_forward(Explorer, 1).current_step_id
       /\ ExpandThenChoose.mode = step_forward(Explorer, 1).mode
       /\ Shape(ExpandThenChoose.working_tree) = Shape(step_forward(Explorer, 1).working_tree)
       /\ SameOutcome(ExpandThenChoose, step_forward(Explorer, 1))

\* The number of possible transitions of the current step.
NumTransitions == Len(StepTransitions(Explorer, current_step(Explorer)[1].ref))

\* The working-tree node that owns the current step.
OwnerNode == current_step(Explorer)[1].node

\* C3 (as stated): at every recorded decision step with k possible
\* transitions, plain or merged, expand_alternatives leaves exactly k
\* candidates, each a child of the node owning the current step, and the
\* Explorer in expansion mode.
C3_ExpandYieldsAllTransitions ==
  (OnRecordedStep /\ NumTransitions > 1)
    => LET x == expand_alternatives(Explorer)
       IN  /\ x.out = "ok"
           /\ x.mode
           /\ Len(x.expanded_alt_nodes) = NumTransitions
           /\ Len(x.expanded_alt_ptnodes) = NumTransitions
           /\ \A i \in 1..Len(x.expanded_alt_ptnodes) :
                \E c \in 1..Len(x.working_tree.nodes[OwnerNode].children) :
                  x.working_tree.nodes[OwnerNode].children[c] = x.expanded_alt_ptnodes[i]

\* C4: with the cursor on the last recorded id, step_forward raises "Cannot
\* step beyond end of input" and leaves the cursor where it was.
C4_StepForwardAtEndFails ==
  (current_step_id = LastId)
    => /\ step_forward(Explorer, 1).out = "RuntimeError: Cannot step beyond end of input"
       /\ step_forward(Explorer, 1).current_step_id = current_step_id

\* C4 witness: step_forward was called at the last id and failed there.
C4_Witness ==
  /\ current_step_id = LastId
  /\ last_op = "step_forward"
  /\ outcome = "RuntimeError: Cannot step beyond end of input"

\* C5: go_back_one_step raises "Already at step 0" exactly when the cursor is
\* 0; with the cursor above 0 it succeeds and the cursor ends strictly
\* smaller and not negative.
C5_GoBackFailsOnlyAtZero ==
  /\ current_step_id >= 0
  /\ (current_step_id = 0)
       <=> (go_back_one_step(Explorer).out = "RuntimeError: Already at step 0")
  /\ (current_step_id > 0)
       => /\ go_back_one_step(Explorer).out = "ok"
          /\ go_back_one_step(Explorer).current_step_id < current_step_id
          /\ go_back_one_step(Explorer).current_step_id >= 0

\* C5 witness: go_back_one_step was called at step 0 and failed there.
C5_Witness ==
  /\ last_op = "go_back_one_step"
  /\ outcome = "RuntimeError: Already at step 0"
  /\ current_step_id = 0

\* The fields a failed or idle call must leave alone.
SameExplorer(a, b) ==
  /\ a.current_step_id = b.current_step_id
  /\ a.working_tree = b.working_tree
  /\ a.max_work_id = b.max_work_id
  /\ a.mode = b.mode
  /\ a.expanded_alt_nodes = b.expanded_alt_nodes
  /\ a.expanded_alt_ptnodes = b.expanded_alt_ptnodes

IsRuntimeError(out) ==
  out \in {"RuntimeError: Not in alt expansion mode", "RuntimeError: Invalid alt index"}

\* C6: choose_alternative(k) raises when the Explorer is not in expansion
\* mode or k is outside 1..number of candidates, and then leaves the cursor,
\* the working tree, the expansion-mode flag and the candidate list as they
\* were.
C6_ChooseRejectsBadCalls ==
  \A k \in 0..MaxChoice :
    (~in_alternative_expansion_mode \/ k < 1 \/ k > Len(expanded_alt_nodes))
      => /\ IsRuntimeError(choose_alternative(Explorer, k).out)
         /\ SameExplorer(choose_alternative(Explorer, k), Explorer)

\* C6 witness: in expansion mode with candidates, a call with an index out
\* of range has failed and the candidates are still there.
C6_Witness ==
  /\ last_op = "choose_alternative"
  /\ outcome = "RuntimeError: Invalid alt index"
  /\ in_alternative_expansion_mode
  /\ Len(expanded_alt_nodes) >= 2

\* C7: cancel_alt_expansion outside expansion mode succeeds and changes
\* neither cursor, working tree, max_work_id nor the expansion-mode flag.
C7_CancelOutsideExpansionIsNoOp ==
  ~in_alternative_expansion_mode
    => /\ cancel_alt_expansion(Explorer).out = "ok"
       /\ cancel_alt_expansion(Explorer).current_step_id = current_step_id
       /\ cancel_alt_expansion(Explorer).working_tree = working_tree
       /\ cancel_alt_expansion(Explorer).max_work_id = max_work_id
       /\ ~cancel_alt_expansion(Explorer).mode

\* C7 witness: cancel_alt_expansion was called outside expansion mode while
\* the working tree carried a committed alternative.
C7_Witness ==
  /\ last_op = "cancel_alt_expansion"
  /\ ~in_alternative_expansion_mode
  /\ current_step_id > max_work_id
  /\ cancel_alt_expansion(Explorer).working_tree = working_tree

ExpandThenCancel == cancel_alt_expansion(expand_alternatives(Explorer))

\* C8: from a non-expansion state, expand_alternatives then
\* cancel_alt_expansion leaves the cursor where it was, the Explorer outside
\* expansion mode with no candidates, and the working tree structurally equal
\* to the one before.
C8_ExpandCancelRestores ==
  ~in_alternative_expansion_mode
    => /\ ExpandThenCancel.current_step_id = current_step_id
       /\ ~ExpandThenCancel.mode
       /\ ExpandThenCancel.expanded_alt_nodes = <<>>
       /\ ExpandThenCancel.expanded_alt_ptnodes = <<>>
       /\ Shape(ExpandThenCancel.working_tree) = Shape(working_tree)

\* C8 witness: an expansion that attached several candidates was cancelled
\* and the same expansion can be made and undone again.
C8_Witness ==
  /\ last_op = "cancel_alt_expansion"
  /\ ~in_alternative_expansion_mode
  /\ Len(expand_alternatives(Explorer).expanded_alt_ptnodes) >= 2
  /\ Shape(expand_alternatives(Explorer).working_tree) # Shape(working_tree)
  /\ Shape(ExpandThenCancel.working_tree) = Shape(working_tree)

\* C9: outside expansion mode with the cursor at or below max_work_id, the
\* working tree is structurally copy_and_cut(current_step_id) of the original
\* tree and the cursor equals max_work_id.
C9_WorkingTreeIsCut ==
  (~in_alternative_expansion_mode /\ current_step_id <= max_work_id)
    => /\ Shape(working_tree) = Shape(copy_and_cut(original_tree, current_step_id))
       /\ current_step_id = max_work_id

\* C9 witness: a committed alternative was left by go_back_one_step, back
\* on a real step strictly inside the parse.
C9_Witness ==
  /\ last_op = "go_back_one_step"
  /\ ~in_alternative_expansion_mode
  /\ 0 < current_step_id /\ current_step_id < LastId
  /\ current_step_id = max_work_id
  /\ \E k \in DOMAIN alt_steps : alt_steps[k].node_type = "alt_chosen"

\* C10 (as stated): from a non-expansion state on a recorded step N < last
\* id, step_forward re-cuts to N + 1 when the choice at N is settled;
\* otherwise it enters expansion mode at N with one candidate per transition
\* of N, or, when exactly one candidate results, chooses it and ends outside
\* expansion mode at N + 1.
C10_StepForwardRelation ==
  (~in_alternative_expansion_mode /\ OnRecordedStep /\ current_step_id < LastId)
    => LET r == step_forward(Explorer, 1)
           x == expand_alternatives(Explorer)
       IN  IF Settled
           THEN /\ r.out = "ok"
                /\ r.current_step_id = current_step_id + 1
                /\ ~r.mode
                /\ Shape(r.working_tree)
                     = Shape(copy_and_cut(original_tree, current_step_id + 1))
           ELSE /\ r.out = "ok"
                /\ IF Len(x.expanded_alt_nodes) = 1
                   THEN ~r.mode /\ r.current_step_id = current_step_id + 1
                   ELSE /\ r.mode
                        /\ r.current_step_id = current_step_id
                        /\ Len(r.expanded_alt_nodes) = NumTransitions

\* Largest num_steps a caller passes to step_forward in the properties.
MaxSteps == 3

RECURSIVE StepForwardTimes(_, _)
\* n successive step_forward(1) calls.
StepForwardTimes(e, n) ==
  IF n = 0 THEN e
  ELSE The({StepForwardTimes(r, n - 1) : r \in {step_forward(e, 1)}})

\* The recorded steps N .. N+n-1 all have a settled choice.
SettledRun(N, n) ==
  \A i \in N..(N + n - 1) :
    i + 1 \in 1..Len(all_steps) /\ all_steps[i + 1].chosen_index >= 1

\* C11 (as stated): with the cursor on a recorded step N whose next n steps
\* N .. N+n-1 are settled and N+n <= last id, step_forward(n) succeeds, moves
\* the cursor to N+n and ends like n successive step_forward(1) calls.
C11_StepForwardManyMovesBySteps ==
  \A n \in 1..MaxSteps :
    (OnRecordedStep /\ SettledRun(current_step_id, n) /\ current_step_id + n <= LastId)
      => /\ step_forward(Explorer, n).out = "ok"
         /\ step_forward(Explorer, n).current_step_id = current_step_id + n
         /\ step_forward(Explorer, n).current_step_id
              = StepForwardTimes(Explorer, n).current_step_id
         /\ Shape(step_forward(Explorer, n).working_tree)
              = Shape(StepForwardTimes(Explorer, n).working_tree)

\* C12: reset_to_step_id(id) raises for id < 0 and for id > last id and then
\* leaves the cursor where it was; for 0 <= id <= last id it succeeds and
\* ends outside expansion mode, with no candidates, the cursor on id and the
\* working tree equal to copy_and_cut(id) of the original tree, whatever the
\* state it is called in.
C12_ResetRejectsOrCuts ==
  \A id \in -1..(LastId + 1) :
    \E r \in {reset_to_step_id(Explorer, id)} :
      /\ id < 0 => /\ r.out = "RuntimeError: Cannot reset to negative step ID"
                   /\ r.current_step_id = current_step_id
      /\ id > LastId => /\ r.out = "RuntimeError: Step ID is beyond the original parse"
                        /\ r.current_step_id = current_step_id
      /\ (0 <= id /\ id <= LastId)
           => /\ r.out = "ok"
              /\ ~r.mode
              /\ r.current_step_id = id
              /\ r.max_work_id = id
              /\ r.working_tree = copy_and_cut(original_tree, id)

\* C12 witness: reset_to_step_id has just succeeded, on a step strictly
\* inside the parse, in an Explorer that had committed a speculative
\* alternative before (its step still carries the mark), and a call from
\* here with an id beyond the parse fails.
C12_Witness ==
  /\ last_op = "reset_to_step_id"
  /\ outcome = "ok"
  /\ 0 < current_step_id /\ current_step_id < LastId
  /\ \E k \in DOMAIN alt_steps : alt_steps[k].node_type = "alt_chosen"
  /\ reset_to_step_id(Explorer, LastId + 1).out # "ok"

UntilNext == step_until_next_decision(Explorer)

BackPrevious == step_back_until_previous_decision(Explorer)

\* C13 (as stated): from every state, step_until_next_decision returns
\* without error with the cursor on a step with more than one possible
\* transition or on the last recorded id, and
\* step_back_until_previous_decision returns without error with the cursor
\* on such a step or at 0.
C13_StopsAtDecisionOrBoundary ==
  /\ UntilNext.out = "ok"
  /\ AtDecision(UntilNext) \/ UntilNext.current_step_id = LastId
  /\ BackPrevious.out = "ok"
  /\ AtDecision(BackPrevious) \/ BackPrevious.current_step_id = 0

\* C13 (amended): both calls return without error; the backward call ends
\* on a decision step or at 0; the forward call ends on a decision step or
\* where step_forward fails, which is the last recorded id whenever the call
\* started on the recorded path (cursor <= max_work_id).
C13_StopsAtDecisionOrWhereStuck ==
  /\ UntilNext.out = "ok"
  /\ AtDecision(UntilNext) \/ step_forward(UntilNext, 1).out # "ok"
  /\ (current_step_id <= max_work_id)
       => (AtDecision(UntilNext) \/ UntilNext.current_step_id = LastId)
  /\ BackPrevious.out = "ok"
  /\ AtDecision(BackPrevious) \/ BackPrevious.current_step_id = 0

\* C13 witness: on the recorded path, not on a decision step, from where the
\* forward call walks at least two steps to the next decision step and the
\* backward call walks at least two steps to the previous one.
C13_Witness ==
  /\ current_step_id <= max_work_id
  /\ ~AtDecision(Explorer)
  /\ AtDecision(UntilNext) /\ UntilNext.current_step_id > current_step_id + 1
  /\ AtDecision(BackPrevious) /\ BackPrevious.current_step_id < current_step_id - 1

NoDup(seq) == \A i, j \in 1..Len(seq) : seq[i] = seq[j] => i = j

\* C15: a walk from the root of the full tree and of the working tree meets
\* no node id twice, and every id in either tree lies below the global id
\* counter, so that the next node created gets an id none of them has.
C15_NodeIdsDistinct ==
  /\ NoDup(BFS(original_tree))
  /\ NoDup(BFS(working_tree))
  /\ \A n \in (DOMAIN original_tree.nodes) \cup (DOMAIN working_tree.nodes) :
       n < global_id_counter

\* C15 witness: a working tree that holds, next to cloned nodes of the full
\* tree, a committed alternative and the candidates of an expansion made on
\* it.
C15_Witness ==
  /\ in_alternative_expansion_mode
  /\ current_step_id > max_work_id
  /\ Len(expanded_alt_ptnodes) >= 1
  /\ Cardinality(DOMAIN working_tree.nodes) >= 3
  /\ \E n \in DOMAIN working_tree.nodes : n \in DOMAIN original_tree.nodes

\* The steps (by position) that must create a node.
Creators ==
  {i \in 1..Len(all_steps) : all_steps[i].node_type \in {"Rule entry", "Token consume"}}

RECURSIVE OpenRules(_)
\* The positions of the Rule entry steps still open after step i, innermost
\* last.
OpenRules(i) ==
  IF i = 0 THEN <<>>
  ELSE The({CASE all_steps[i].node_type = "Rule entry" -> Append(open, i)
              [] all_steps[i].node_type = "Rule exit" /\ open # <<>> ->
                   SubSeq(open, 1, Len(open) - 1)
              [] OTHER -> open :
            open \in {OpenRules(i - 1)}})

\* The nodes of the full tree whose first trace step is step i.
NodesOf(i) ==
  {n \in DOMAIN original_tree.nodes :
     original_tree.nodes[n].trace_steps[1] = <<all_steps[i].id>>}

NodeOf(i) == CHOOSE n \in NodesOf(i) : TRUE

\* The creating steps whose innermost open rule is the one entered at step p
\* (p = 0: no rule open), in parse order.
CreatedUnder(p) ==
  LET under(i) == /\ i \in Creators
                  /\ \E open \in {OpenRules(i - 1)} :
                       IF open = <<>> THEN p = 0 ELSE open[Len(open)] = p
  IN  SelectSeq([i \in 1..Len(all_steps) |-> i], under)

\* C16: the full tree has exactly one node per Rule entry and per Token
\* consume step and no other node; the node carries the step's rule name (or
\* token); the children of a rule node are the nodes created while it was
\* the innermost open rule, in parse order; the first node created is the
\* root; a Rule exit step is recorded on the rule it closes; and input "123"
\* gives startRule > zwoelf > EINS ('1'), ZWEI ('2'), DREI ('3').
C16_TreeIsGrammarShaped ==
  /\ Cardinality(DOMAIN original_tree.nodes) = Cardinality(Creators)
  /\ \A i \in Creators :
       /\ Cardinality(NodesOf(i)) = 1
       /\ \E node \in {original_tree.nodes[NodeOf(i)]} :
            /\ IF all_steps[i].node_type = "Rule entry"
               THEN node.rule_name = all_steps[i].rule_name /\ node.token = "None"
               ELSE node.rule_name = "None" /\ node.token = all_steps[i].token
            /\ node.children =
                 IF all_steps[i].node_type = "Rule entry"
                 THEN [c \in 1..Len(CreatedUnder(i)) |-> NodeOf(CreatedUnder(i)[c])]
                 ELSE <<>>
  /\ Creators # {} => original_tree.root = <<NodeOf(CreatedUnder(0)[1])>>
  /\ \A i \in 1..Len(all_steps) :
       (all_steps[i].node_type = "Rule exit" /\ OpenRules(i - 1) # <<>>)
         => \E open \in {OpenRules(i - 1)} :
              \E t \in 1..Len(original_tree.nodes[NodeOf(open[Len(open)])].trace_steps) :
                original_tree.nodes[NodeOf(open[Len(open)])].trace_steps[t]
                  = <<all_steps[i].id>>
  /\ (all_steps = Traversal("123"))
       => \E r \in {original_tree.nodes[original_tree.root[1]]} :
            /\ r.rule_name = "startRule" /\ Len(r.children) = 1
            /\ \E z \in {original_tree.nodes[r.children[1]]} :
                 /\ z.rule_name = "zwoelf" /\ Len(z.children) = 3
                 /\ [c \in 1..3 |-> original_tree.nodes[z.children[c]].token]
                      = <<"EINS ('1')", "ZWEI ('2')", "DREI ('3')">>
                 /\ \A c \in 1..3 :
                      /\ original_tree.nodes[z.children[c]].rule_name = "None"
                      /\ original_tree.nodes[z.children[c]].children = <<>>

\* C16 witness: the full tree of input "123", with a rule nested in the
\* start rule and three token leaves below it.
C16_Witness ==
  /\ all_steps = Traversal("123")
  /\ Cardinality(DOMAIN original_tree.nodes) = 5
  /\ Len(original_tree.nodes[original_tree.root[1]].children) = 1

\* Rule node or token node, never both and never neither, and serialized
\* accordingly.
RuleXorToken(node) ==
  /\ (node.rule_name # "None") # (node.token # "None")
  /\ (to_dict_node_type(node) = "token") <=> (node.token # "None")
  /\ (to_dict_node_type(node) = "rule") <=> (node.rule_name # "None")

AllRuleXorToken(tree) == \A n \in DOMAIN tree.nodes : RuleXorToken(tree.nodes[n])

\* C17: every node of the full tree, of each of its cuts and of the working
\* tree (attached alternative candidates included) is a rule node or a token
\* node, never both and never neither, and its serialized node_type is
\* "token" exactly when the token is set.
C17_NodesAreRuleXorToken ==
  /\ AllRuleXorToken(original_tree)
  /\ AllRuleXorToken(working_tree)
  /\ \A N \in 0..LastId : AllRuleXorToken(copy_and_cut(original_tree, N))

\* C17 witness: a working tree in expansion mode with several attached
\* candidates, next to a full tree that holds rule nodes and token nodes.
C17_Witness ==
  /\ in_alternative_expansion_mode
  /\ Len(expanded_alt_ptnodes) >= 2
  /\ \A i \in 1..Len(expanded_alt_ptnodes) :
       expanded_alt_ptnodes[i] \in DOMAIN working_tree.nodes
  /\ \E n \in DOMAIN original_tree.nodes : original_tree.nodes[n].token # "None"
  /\ \E n \in DOMAIN working_tree.nodes : working_tree.nodes[n].rule_name # "None"

\* The parse of the input reports its first error after the start rule is
\* entered and before any token is consumed or any other rule entered.
ErrorBeforeAnyMatch(input) ==
  \E p \in 2..Len(Events(input)) :
    /\ Events(input)[1].type = "rule_entry"
    /\ Events(input)[p].type = "error"
    /\ \A q \in 2..(p - 1) : Events(input)[q].type \notin {"rule_entry", "token_consume", "error"}

\* C18: when the first error is reported after the start rule is entered and
\* before any token is consumed or sub-rule entered, the root of the full
\* tree is the start-rule node, it has no children, and at least one
\* recorded step has is_error_node set; the working tree the Explorer starts
\* with has the same root, without children.
C18_EarlyErrorLeavesBareRoot ==
  \A input \in Inputs :
    (all_steps = Traversal(input) /\ ErrorBeforeAnyMatch(input))
      => /\ original_tree.root # <<>>
         /\ original_tree.nodes[original_tree.root[1]].rule_name = ruleNames[1]
         /\ original_tree.nodes[original_tree.root[1]].token = "None"
         /\ original_tree.nodes[original_tree.root[1]].children = <<>>
         /\ \E i \in 1..Len(all_steps) : all_steps[i].is_error_node
         /\ (last_op = "init")
              => /\ working_tree.root = original_tree.root
                 /\ working_tree.nodes[working_tree.root[1]].children = <<>>

\* C18 witness: the Explorer as constructed on the parse of the empty token
\* sequence, whose last recorded step is the Error step.
C18_Witness ==
  /\ last_op = "init"
  /\ \E input \in Inputs : all_steps = Traversal(input) /\ ErrorBeforeAnyMatch(input)
  /\ all_steps[Len(all_steps)].node_type = "Error"
  /\ all_steps[Len(all_steps)].is_error_node

\* The node has a trace step with id <= N.
Retains(node, N) == \E t \in 1..Len(node.trace_steps) : node.trace_steps[t][1] <= N

\* The ids of the steps recorded in a tree.
StepIdsIn(tree) ==
  UNION {{tree.nodes[n].trace_steps[t][1] : t \in 1..Len(tree.nodes[n].trace_steps)} :
           n \in DOMAIN tree.nodes}

\* cut is the cut at N of tree, described node by node.
IsCutOf(cut, tree, N) ==
  /\ DOMAIN cut.nodes = {n \in DOMAIN tree.nodes : Retains(tree.nodes[n], N)}
  /\ cut.root = IF tree.root # <<>> /\ Retains(tree.nodes[tree.root[1]], N)
                THEN tree.root ELSE <<>>
  /\ \A n \in DOMAIN cut.nodes :
       LET le(ref) == ref[1] <= N
           kept(ch) == ch \in DOMAIN cut.nodes
       IN  /\ cut.nodes[n].rule_name = tree.nodes[n].rule_name
           /\ cut.nodes[n].token = tree.nodes[n].token
           /\ cut.nodes[n].trace_steps = SelectSeq(tree.nodes[n].trace_steps, le)
           /\ cut.nodes[n].children = SelectSeq(tree.nodes[n].children, kept)
  /\ StepIdsIn(cut) = {i \in StepIdsIn(tree) : i <= N}

\* C19: for every N, copy_and_cut(N) of the full tree holds exactly the
\* nodes that have a trace step with id <= N, each with its id, its tags, its
\* trace steps with id <= N in order and its retained children in order;
\* the step ids in the copy are the step ids <= N of the full tree.
C19_CutKeepsStepsUpToN ==
  \A N \in -1..(LastId + 1) :
    \E cut \in {copy_and_cut(original_tree, N)} : IsCutOf(cut, original_tree, N)

\* C19 witness: after reset_to_step_id the working tree is a proper cut of
\* the full tree: a node is gone and a kept node has lost trace steps.
C19_Witness ==
  /\ last_op = "reset_to_step_id"
  /\ outcome = "ok"
  /\ working_tree = copy_and_cut(original_tree, current_step_id)
  /\ \E n \in DOMAIN original_tree.nodes : n \notin DOMAIN working_tree.nodes
  /\ \E n \in DOMAIN working_tree.nodes :
       /\ Len(working_tree.nodes[n].trace_steps) < Len(original_tree.nodes[n].trace_steps)
       /\ Len(working_tree.nodes[n].children) < Len(original_tree.nodes[n].children)
       /\ working_tree.nodes[n].children # <<>>

\* Two _cut_to_step(N) calls in a row.
CutTwice(N) == cut_to_step(cut_to_step(Explorer, N), N)

\* C20: for every N, a second copy_and_cut(N) of the full tree, made by a
\* second _cut_to_step call while the global id counter has moved on, gives
\* the same tree as the first (node ids, trace steps, child order), and
\* copy_and_cut(N) applied to the tree copy_and_cut(N) returned gives that
\* tree again.
C20_CutIsIdempotent ==
  \A N \in -1..(LastId + 1) :
    /\ CutTwice(N).working_tree = cut_to_step(Explorer, N).working_tree
    /\ CutTwice(N).ctr >= cut_to_step(Explorer, N).ctr
    /\ copy_and_cut(copy_and_cut(original_tree, N), N) = copy_and_cut(original_tree, N)

\* C20 witness: the working tree is a proper, non-empty cut of the full
\* tree, the global id counter has moved on since construction, and cutting
\* the working tree again at the cursor changes nothing.
C20_Witness ==
  /\ last_op = "go_back_one_step"
  /\ 0 < current_step_id /\ current_step_id < LastId
  /\ working_tree = copy_and_cut(original_tree, current_step_id)
  /\ working_tree # original_tree
  /\ Cardinality(DOMAIN working_tree.nodes) >= 2
  /\ copy_and_cut(working_tree, current_step_id) = working_tree
  /\ CutTwice(current_step_id).ctr > cut_to_step(Explorer, current_step_id).ctr

\* The tree build_from_traversal made of the recorded steps.
BuiltTree ==
  \E b \in {build_from_traversal(all_steps, 0)} :
    original_tree = [root |-> b.root, nodes |-> b.nodes]

\* The results of every Explorer operation called in the current state.
OperationResults ==
  {step_forward(Explorer, n) : n \in 1..MaxSteps}
    \cup {go_back_one_step(Explorer), expand_alternatives(Explorer),
          cancel_alt_expansion(Explorer), step_until_next_decision(Explorer),
          step_back_until_previous_decision(Explorer)}
    \cup {reset_to_step_id(Explorer, id) : id \in -1..(LastId + 1)}
    \cup {choose_alternative(Explorer, k) : k \in 0..MaxChoice}

\* C21: in every reachable state the full tree is the tree
\* build_from_traversal made (nodes, children lists, trace_steps lists); no
\* Explorer operation called from the state changes it; no copy_and_cut of
\* it is the same object with fewer steps (the full tree still holds every
\* recorded step); and no alternative branch and no candidate node is ever
\* in it.
C21_FullTreeNeverChanges ==
  /\ BuiltTree
  /\ \A r \in OperationResults : r.original_tree = original_tree
  /\ \A n \in DOMAIN original_tree.nodes :
       \A t \in 1..Len(original_tree.nodes[n].trace_steps) :
         ~IsAlt(original_tree.nodes[n].trace_steps[t])
  /\ \A i \in 1..Len(expanded_alt_ptnodes) :
       expanded_alt_ptnodes[i] \notin DOMAIN original_tree.nodes

\* C21 witness: a speculative alternative has been committed: the working
\* tree holds a node the full tree has not, below a node whose children list
\* in the full tree is a different one, and the working tree is a strict cut
\* otherwise.
C21_Witness ==
  /\ last_op = "choose_alternative"
  /\ outcome = "ok"
  /\ current_step_id > max_work_id
  /\ \E n \in DOMAIN working_tree.nodes : n \notin DOMAIN original_tree.nodes
  /\ \E n \in (DOMAIN working_tree.nodes) \cap (DOMAIN original_tree.nodes) :
       working_tree.nodes[n].children # original_tree.nodes[n].children
  /\ \E n \in DOMAIN original_tree.nodes : n \notin DOMAIN working_tree.nodes

\* The steps of the traversal of the parse run.
Steps == traversal.all_steps

\* C22: once the parse has merged and renumbered, the i-th step of the main
\* sequence has id i (from 0), the next_node chain from the first step runs
\* through the steps in order and ends at the last, so that the id grows by
\* one at every link, and the j-th alternative branch of the step with id p
\* has the id "p.j".
C22_IdsSequentialAfterFix ==
  (parse_phase = "parsed")
    => /\ \A i \in 1..Len(Steps) : Steps[i].id = i - 1
       /\ \A i \in 1..Len(Steps) :
            Steps[i].next_node = IF i < Len(Steps) THEN Steps[i + 1].obj ELSE 0
       /\ \A i \in 1..(Len(Steps) - 1) :
            \E nxt \in {PosOf(Steps, Steps[i].next_node)} :
              nxt # 0 /\ Steps[nxt].id = Steps[i].id + 1
       /\ \A i \in 1..Len(Steps) :
            \A j \in 1..Len(Steps[i].alternative_branches) :
              Steps[i].alternative_branches[j].id = <<Steps[i].id, j>>

\* C22 witness: a renumbered traversal with a merged step that replaced a
\* group, so that the steps behind it and their alternative branches were
\* recorded under larger ids than they have now.
C22_Witness ==
  /\ parse_phase = "parsed"
  /\ \E i \in 1..(Len(Steps) - 1) :
       /\ Steps[i].node_type \in {"Merged Sync", "Merged Decision"}
       /\ Steps[i].alternative_branches # <<>>
       /\ Steps[i + 1].obj > Steps[i + 1].id + 2
       /\ Steps[i + 1].alternative_branches # <<>>

\* The union law for one merged group mg of the steps.
UnionLaw(steps, mg) ==
  \E merged \in {mg.merged_node.possible_transitions} :
    /\ Range(merged)
         = UNION {Range(steps[mg.group[k]].possible_transitions) : k \in 1..Len(mg.group)}
    /\ NoDup(merged)
    /\ \A a, b \in 1..Len(merged) : a < b => PairLess(merged[a], merged[b])
    /\ \A k \in 1..Len(mg.group) :
         Len(merged) >= Cardinality(Range(steps[mg.group[k]].possible_transitions))

ErrorSteps == {i \in 1..Len(Steps) : Steps[i].is_error_node}

\* The events the interpreter can raise where the parser stands: each kind
\* of event, in either rule, at the states of the events of the parses.
AnyEvents ==
  {Ev(type, rule, state, token) :
     type \in {"rule_entry", "rule_exit", "token_consume", "decision", "sync", "error"},
     rule \in 1..Len(ruleNames),
     state \in {0, 4, 9, 15, 21},
     token \in 1..Len(symbolicNames)}

\* C24: at most one step is ever marked is_error_node; a step is marked
\* exactly when an error has been reported; the marked step is the last
\* step of the main sequence, during the parse and after merging and
\* renumbering; and once it is there no event of any kind (a further error
\* included) appends a step or changes one.
C24_OnlyFirstErrorRecorded ==
  /\ Cardinality(ErrorSteps) <= 1
  /\ (ErrorSteps # {}) <=> traversal.error_occurred
  /\ (reports > 0) => ErrorSteps = {Len(Steps)}
  /\ (ErrorSteps # {} /\ parse_phase = "parsing")
       => \A ev \in AnyEvents : Record(traversal, ev) = traversal

\* C24 witness: an error was reported in the middle of a parse, a second one
\* after it, and a token consumed after both has just been handled: the
\* traversal still ends with the step of the first error.
C24_Witness ==
  /\ parse_phase = "parsing"
  /\ last_op = "consume"
  /\ reports = 2
  /\ Len(Steps) >= 3
  /\ Steps[Len(Steps)].node_type = "Error"
  /\ Steps[Len(Steps)].is_error_node
  /\ pending # <<>>

\* The step has one alternative branch per possible transition, in order:
\* branch j leads to the target state of transition j.
BranchPerTransition(step) ==
  /\ Len(step.alternative_branches) = Len(step.possible_transitions)
  /\ \A j \in 1..Len(step.alternative_branches) :
       j <= Len(step.possible_transitions)
         => step.alternative_branches[j].state = step.possible_transitions[j][1]

\* C25 (as stated): in every state of the parse run, while recording and
\* after merging and renumbering, every step of the main sequence has one
\* alternative branch per entry of its possible_transitions, in the same
\* order.
C25_BranchPerTransition ==
  \A i \in 1..Len(Steps) : BranchPerTransition(Steps[i])

\* C26 (as stated): when the event the interpreter raises next is at the
\* state of the last recorded step and that step's choice is unsettled
\* (chosen index -1), recording it appends no step: the main sequence keeps
\* its length (a Decision right after a Sync on the same state gives one
\* step).
C26_SameStateEventOverwrites ==
  (/\ parse_phase = "parsing"
   /\ ~traversal.error_occurred
   /\ pending # <<>>
   /\ Steps # <<>>
   /\ Head(pending).state = Steps[Len(Steps)].state
   /\ Steps[Len(Steps)].chosen_index = -1)
    => Len(Record(traversal, Head(pending)).all_steps) = Len(Steps)

\* The candidate index k names a speculative choice: the Explorer is in
\* expansion mode, k is a candidate and not the current step's known choice.
Speculative(k) ==
  /\ in_alternative_expansion_mode
  /\ k \in 1..Len(expanded_alt_nodes)
  /\ current_step(Explorer) # <<>>
  /\ k # StepChosen(Explorer, current_step(Explorer)[1].ref)

\* What choose_alternative(k) does apart from the id it gives the candidate:
\* the k-th candidate's node stays in the working tree, every sibling
\* candidate's node leaves it and nothing else does, the candidate becomes
\* alt_chosen, the cursor sits on its id, and the Explorer is out of
\* expansion mode with no candidates.
CommitsCandidate(k, c) ==
  /\ c.out = "ok"
  /\ DOMAIN c.working_tree.nodes =
       (DOMAIN working_tree.nodes)
         \ {expanded_alt_ptnodes[j] : j \in (1..Len(expanded_alt_ptnodes)) \ {k}}
  /\ expanded_alt_ptnodes[k] \in DOMAIN c.working_tree.nodes
  /\ c.working_tree.nodes[expanded_alt_ptnodes[k]].trace_steps = <<expanded_alt_nodes[k]>>
  /\ c.alt_steps[expanded_alt_nodes[k]].node_type = "alt_chosen"
  /\ <<c.current_step_id>> = c.alt_steps[expanded_alt_nodes[k]].id
  /\ ~c.mode
  /\ c.expanded_alt_nodes = <<>>
  /\ c.expanded_alt_ptnodes = <<>>

\* C27 (as stated): choose_alternative(k) with a speculative k commits the
\* k-th candidate and gives it the id max_work_id + 1.
C27_ChosenIdIsMaxWorkIdPlusOne ==
  \A k \in 1..MaxChoice :
    Speculative(k)
      => \E c \in {choose_alternative(Explorer, k)} :
           /\ CommitsCandidate(k, c)
           /\ c.alt_steps[expanded_alt_nodes[k]].id = <<max_work_id + 1>>

\* C27 (amended): choose_alternative(k) with a speculative k commits the
\* k-th candidate and gives it the id one above the cursor, which is
\* max_work_id + 1 when the cursor is on a recorded step.
C27_ChosenIdIsCursorPlusOne ==
  \A k \in 1..MaxChoice :
    Speculative(k)
      => \E c \in {choose_alternative(Explorer, k)} :
           /\ CommitsCandidate(k, c)
           /\ c.alt_steps[expanded_alt_nodes[k]].id = <<current_step_id + 1>>
           /\ OnRecordedStep => current_step_id + 1 = max_work_id + 1

\* C27 witness: choose_alternative has just committed a candidate that was
\* expanded from a committed alternative, so that the cursor, on the
\* candidate's id, is more than one above max_work_id.
C27_Witness ==
  /\ last_op = "choose_alternative"
  /\ outcome = "ok"
  /\ current_step_id > max_work_id + 1
  /\ current_step(Explorer) # <<>>
  /\ IsAlt(current_step(Explorer)[1].ref)
  /\ Len(working_tree.nodes[current_step(Explorer)[1].node].trace_steps) = 1

\* The Explorer after expand_alternatives and choose_alternative(k) from the
\* present state.
Committed(k) == choose_alternative(expand_alternatives(Explorer), k)

\* Committing candidate k from the present state (not in expansion mode) is
\* speculative: both calls succeed, k is not the known choice of the present
\* step, and the cursor ends on an alternative above max_work_id.
CommitsSpeculatively(k) ==
  /\ ~in_alternative_expansion_mode
  /\ current_step(Explorer) # <<>>
  /\ k # StepChosen(Explorer, current_step(Explorer)[1].ref)
  /\ expand_alternatives(Explorer).out = "ok"
  /\ k \in 1..Len(expand_alternatives(Explorer).expanded_alt_nodes)
  /\ Committed(k).out = "ok"
  /\ Committed(k).current_step_id > Committed(k).max_work_id

\* C28: after a speculative alternative has been committed, from a recorded
\* step or from within a committed alternative, go_back_one_step succeeds,
\* takes the committed candidate's node out of the working tree, returns the
\* cursor to the step that was expanded and leaves the working tree
\* structurally equal to the tree before the expansion.
C28_GoBackUndoesCommit ==
  \A k \in 1..MaxChoice :
    CommitsSpeculatively(k)
      => \E c \in {Committed(k)} : \E g \in {go_back_one_step(c)} :
           /\ g.out = "ok"
           /\ g.current_step_id = current_step_id
           /\ Shape(g.working_tree) = Shape(working_tree)
           /\ \A n \in DOMAIN c.working_tree.nodes :
                c.working_tree.nodes[n].trace_steps # <<>>
                /\ StepId(c, c.working_tree.nodes[n].trace_steps[1]) = <<c.current_step_id>>
                  => n \notin DOMAIN g.working_tree.nodes
           /\ ~g.mode

\* C28 witness: go_back_one_step has just returned the cursor from an
\* alternative committed within a committed alternative: the cursor is still
\* above max_work_id, on an alternative, and a further speculative commit is
\* possible from here.
C28_Witness ==
  /\ last_op = "go_back_one_step"
  /\ outcome = "ok"
  /\ current_step_id > max_work_id
  /\ current_step(Explorer) # <<>>
  /\ IsAlt(current_step(Explorer)[1].ref)
  /\ \E k \in 1..MaxChoice : CommitsSpeculatively(k)

\* The id of the last step of the recording.
LastRecordedId == all_steps[Len(all_steps)].id

\* C29 (as stated): in every reachable Explorer state the cursor lies in
\* 0..last recorded step id.
C29_CursorWithinRecording ==
  /\ 0 <= current_step_id
  /\ current_step_id <= LastRecordedId

\* C29 (amended): the cursor is never negative and max_work_id never exceeds
\* the last recorded id; the cursor is beyond the last recorded id only while
\* it is on a committed speculative alternative (an alt_chosen step above
\* max_work_id); from a cursor within the recording, step_forward,
\* go_back_one_step, reset_to_step_id and the choice of the recorded
\* alternative keep it within the recording.
C29_CursorBeyondEndOnlyOnAlternative ==
  /\ 0 <= current_step_id
  /\ max_work_id <= LastRecordedId
  /\ current_step_id > LastRecordedId
       => /\ current_step_id > max_work_id
          /\ current_step(Explorer) # <<>>
          /\ IsAlt(current_step(Explorer)[1].ref)
          /\ alt_steps[current_step(Explorer)[1].ref].node_type = "alt_chosen"
  /\ current_step_id <= LastRecordedId
       => /\ step_forward(Explorer, 1).current_step_id <= LastRecordedId
          /\ go_back_one_step(Explorer).current_step_id <= LastRecordedId
          /\ \A id \in -1..(LastRecordedId + 1) :
               reset_to_step_id(Explorer, id).current_step_id <= LastRecordedId
          /\ \A k \in 1..MaxChoice :
               (/\ in_alternative_expansion_mode
                /\ current_step(Explorer) # <<>>
                /\ k = StepChosen(Explorer, current_step(Explorer)[1].ref))
                 => choose_alternative(Explorer, k).current_step_id <= LastRecordedId

\* C29 witness: choose_alternative has just committed a speculative
\* candidate expanded on the last recorded step, and the cursor is one
\* beyond the end of the recording.
C29_Witness ==
  /\ last_op = "choose_alternative"
  /\ outcome = "ok"
  /\ max_work_id = LastRecordedId
  /\ current_step_id = LastRecordedId + 1

\* C30 (as stated): a navigation call that fails (step_forward at the end
\* of the recording, go_back_one_step at step 0, reset_to_step_id with an id
\* outside the recording) leaves the cursor, the working tree, max_work_id,
\* the expansion-mode flag and the candidate lists as they were, in
\* expansion mode too.
C30_FailedNavigationChangesNothing ==
  /\ step_forward(Explorer, 1).out = "RuntimeError: Cannot step beyond end of input"
       => SameExplorer(step_forward(Explorer, 1), Explorer)
  /\ go_back_one_step(Explorer).out = "RuntimeError: Already at step 0"
       => SameExplorer(go_back_one_step(Explorer), Explorer)
  /\ \A id \in -1..(LastId + 1) :
       reset_to_step_id(Explorer, id).out
           \in {"RuntimeError: Cannot reset to negative step ID",
                "RuntimeError: Step ID is beyond the original parse"}
         => SameExplorer(reset_to_step_id(Explorer, id), Explorer)

\* C31 (as stated): in every reachable Explorer state no alternative-branch
\* step carries the id of a main-path step: get_node_by_id(i) returns the
\* main-path step with id i for every i in 0..last recorded id, and every
\* alternative branch has a compound "parent.ordinal" id.
C31_StepIdsStayUnique ==
  /\ \A i \in 0..LastRecordedId : get_node_by_id(Explorer, <<i>>) = <<(<<i>>)>>
  /\ \A k \in DOMAIN alt_steps : Len(alt_steps[k].id) > 1

\* Step i of the recording is of type Decision or Sync.
Mergeable(i) == Steps[i].node_type \in {"Decision", "Sync"}

\* Steps i and i + 1 belong to one run: both Decision or Sync, same rule.
SameRun(i) ==
  /\ Mergeable(i) /\ Mergeable(i + 1)
  /\ Steps[i].rule_name = Steps[i + 1].rule_name

\* Positions a..b form a maximal run of two or more steps.
MaximalRun(a, b) ==
  /\ a < b
  /\ \A i \in a..(b - 1) : SameRun(i)
  /\ a = 1 \/ ~SameRun(a - 1)
  /\ b = Len(Steps) \/ ~SameRun(b)

\* The groups group_and_merge finds in the recording so far.
GroupsFound == [g \in 1..Len(group_and_merge(Steps)) |-> group_and_merge(Steps)[g].group]

SameChoice(mg) ==
  \E last \in {Steps[mg.group[Len(mg.group)]]} : \E c \in {mg.merged_node.chosen_index} :
    /\ c = -1 \/ c \in 1..Len(mg.merged_node.possible_transitions)
    /\ last.chosen_index >= 1
         => /\ c >= 1
            /\ mg.merged_node.possible_transitions[c]
                 = last.possible_transitions[last.chosen_index]
    /\ c = -1 => last.chosen_index = -1

\* C33: at every point of the recording, for every group that
\* group_and_merge merges, a settled choice c >= 1 of the last member
\* gives the merged step a chosen index c' >= 1 whose transition is the
\* (target state, labels) pair the last member chose, and the merged index
\* is -1 only when the last member's is -1.
C33_MergedChoiceFollowsLastMember ==
  parse_phase = "parsing"
    => \A g \in 1..Len(group_and_merge(Steps)) : SameChoice(group_and_merge(Steps)[g])

\* C33 witness: a group of Sync and Decision whose last member was
\* resolved by the rule entry that followed it; the merged step has the
\* choice too.
C33_Witness ==
  /\ parse_phase = "parsing"
  /\ \E g \in 1..Len(group_and_merge(Steps)) :
       \E mg \in {group_and_merge(Steps)[g]} :
         /\ Steps[mg.group[Len(mg.group)]].chosen_index >= 1
         /\ Len(mg.merged_node.possible_transitions) > 1
         /\ mg.merged_node.chosen_index >= 1

\* The merged groups of the recording so far and the main sequence that
\* replace_merged_nodes makes of it.
MergedGroups == group_and_merge(Steps)

Replaced == replace_merged_nodes(Steps, MergedGroups)

\* The positions of the recording that keep a place in the new sequence:
\* the steps outside every group and the first member of each group.
KeptPositions ==
  {i \in 1..Len(Steps) :
     \A g \in 1..Len(MergedGroups) :
       i \notin Range(MergedGroups[g].group) \/ i = MergedGroups[g].group[1]}

\* The k-th kept position.
KeptAt(k) == CHOOSE i \in KeptPositions : Cardinality({j \in KeptPositions : j < i}) = k - 1

\* A step without its links and branches.
Unlinked(step) ==
  [step EXCEPT !.next_node = 0, !.previous_node = 0, !.alternative_branches = <<>>]

\* Place k of the new sequence holds what the recording had at position i:
\* the step itself with its branches, or the merged step of the group that
\* starts there with the last member's branches re-parented to it.
HoldsPlace(new, k, i) ==
  IF \E g \in 1..Len(MergedGroups) : MergedGroups[g].group[1] = i
  THEN \E mg \in {CHOOSE x \in Range(MergedGroups) : x.group[1] = i} :
         \E last \in {Steps[mg.group[Len(mg.group)]]} :
           /\ Unlinked(new[k]) = Unlinked(mg.merged_node)
           /\ Len(new[k].alternative_branches) = Len(last.alternative_branches)
           /\ \A j \in 1..Len(last.alternative_branches) :
                /\ new[k].alternative_branches[j].previous_node = new[k].obj
                /\ [new[k].alternative_branches[j] EXCEPT !.previous_node = last.obj]
                     = last.alternative_branches[j]
  ELSE /\ Unlinked(new[k]) = Unlinked(Steps[i])
       /\ new[k].alternative_branches = Steps[i].alternative_branches

RecordsNext(type) ==
  /\ parse_phase = "parsing"
  /\ pending # <<>>
  /\ Head(pending).type = type
  /\ ~traversal.error_occurred
  /\ Steps # <<>>

\* The recording after the next event has been handled.
StepsAfterNext == Record(traversal, Head(pending)).all_steps

\* Position m is the first transition of step prev that the token type tt
\* matches.
FirstMatch(prev, tt, m) ==
  /\ m \in 1..Len(prev.possible_transitions)
  /\ TokenMatches(prev.possible_transitions[m], tt)
  /\ \A j \in 1..(m - 1) : ~TokenMatches(prev.possible_transitions[j], tt)

FirstLabelled(prev, label, m) ==
  /\ m \in 1..Len(prev.possible_transitions)
  /\ HasLabel(prev.possible_transitions[m], label)
  /\ \A j \in 1..(m - 1) : ~HasLabel(prev.possible_transitions[j], label)

\* The chosen index that recording an event leaves a step prev with, when
\* the event resolves a pending choice by the given label: the first
\* position that carries the label, and the index prev had if it was
\* settled or no transition carries the label.
ResolvedBy(prev, label, now) ==
  IF prev.chosen_index = -1
     /\ \E m \in 1..Len(prev.possible_transitions) : FirstLabelled(prev, label, m)
  THEN FirstLabelled(prev, label, now)
  ELSE now = prev.chosen_index

\* C36 (as stated): a rule entry for rule name resolves a pending previous
\* step to the first of its transitions labelled "Rule name" for exactly
\* that name, a rule exit to the first labelled "Exit"; a settled previous
\* step, and one without such a transition, keeps its chosen index.
C36_RuleHooksResolveByExactLabel ==
  (parse_phase = "parsing" /\ ~traversal.error_occurred /\ Steps # <<>>)
    => \A rule_name \in {"zwoelf", "zwoelfer"} :
         /\ ResolvedBy(Steps[Len(Steps)], "Rule " \o rule_name,
                       create_rule_entry_node(traversal, rule_name, 2)
                         .all_steps[Len(Steps)].chosen_index)
         /\ ResolvedBy(Steps[Len(Steps)], "Exit",
                       create_rule_exit_node(traversal, rule_name, 21)
                         .all_steps[Len(Steps)].chosen_index)

\* The chosen index of a step is -1 or the position of one of its
\* transitions.
ValidChoice(step) ==
  \/ step.chosen_index = -1
  \/ step.chosen_index \in 1..Len(step.possible_transitions)

StreamView(streams, steps, k) ==
  <<streams[steps[k].token_stream].index, steps[k].current_token, steps[k].lookahead>>

\* The step with key k holds a stream that no other step and not the parser
\* holds.
OwnsItsStream(steps, k) ==
  /\ steps[k].token_stream # 1
  /\ \A o \in (DOMAIN steps) \ {k} : steps[o].token_stream # steps[k].token_stream

\* C38: an expansion changes neither the parser's stream nor the position,
\* current token or lookahead of any step that was there before it (the
\* main-path steps, the parent of the expanded candidate, the candidate and
\* its siblings), and every child it creates owns its stream.
C38_ExpansionKeepsOtherPositions ==
  [][/\ token_streams'[1] = token_streams[1]
     /\ \A k \in DOMAIN stream_steps :
          /\ k \in DOMAIN stream_steps'
          /\ StreamView(token_streams', stream_steps', k)
               = StreamView(token_streams, stream_steps, k)
     /\ \A k \in (DOMAIN stream_steps') \ (DOMAIN stream_steps) :
          OwnsItsStream(stream_steps', k)]_stream_vars

\* C38 witness: a child of an expanded candidate stands one token further
\* than the candidate it was copied from.
C38_Witness ==
  \E k \in DOMAIN stream_steps :
    /\ Len(k) >= 3
    /\ StreamView(token_streams, stream_steps, k)[1]
         = StreamView(token_streams, stream_steps, SubSeq(k, 1, Len(k) - 1))[1] + 1

RECURSIVE EpsilonClosure(_, _, _)
\* The states of g reached from the set seen through epsilon transitions
\* only, in at most n more rounds.
EpsilonClosure(g, seen, n) ==
  IF n = 0 THEN seen
  ELSE EpsilonClosure(g,
                      seen \cup UNION {{g[s].transitions[i].target :
                                           i \in {j \in 1..Len(g[s].transitions) :
                                                     g[s].transitions[j].kind = "EPS"}} :
                                          s \in seen},
                      n - 1)

\* The label is the name of a token (the bare str of an atom transition), a
\* list of token names, the label of a rule, or "Exit" at a rule-stop state.
OracleLabel(g, entry) ==
  \/ \E tt \in 1..Len(symbolicNames) : entry[2] = Chars(symbolicNames[tt])
  \/ /\ entry[2] # <<>>
     /\ \A n \in 1..Len(entry[2]) : \E tt \in 1..Len(symbolicNames) : entry[2][n] = symbolicNames[tt]
  \/ \E r \in 1..Len(ruleNames) : entry[2] = <<RuleLabel(r)>>
  \/ entry[2] = <<"Exit">> /\ g[entry[1]].stateType = "RULE_STOP"

\* C39 (as stated): follow_transitions returns on every graph, cyclic ones
\* included, and every entry carries a token, token-set, rule or Exit label
\* and belongs to a state reached from the start state through epsilon
\* transitions only.  A wildcard transition is followed like an epsilon
\* transition, and the entries behind it are returned too.
C39_OracleReturnsEpsilonClosure ==
  oracle_answer # <<>> =>
    /\ ~oracle_answer.found.cut
    /\ \A n \in 1..Len(oracle_answer.found.results) :
         /\ OracleLabel(oracle_graph, oracle_answer.found.results[n])
         /\ oracle_answer.found.results[n][1]
              \in EpsilonClosure(oracle_graph, {oracle_answer.state}, Cardinality(GraphStates))

====
